---- MODULE Spec2Model ----
(***************************************************************************)
(* Model of tools/checker.py: the check-line matcher (CheckLine.match),    *)
(* the group matcher (CheckGroup.match and its helpers) and the file-level *)
(* loop (CheckFile.match, OutputFile.findGroup), and the two file parsers  *)
(* (FileSplitMixin._parseStream with CheckFile and OutputFile).            *)
(*                                                                         *)
(* Text is a sequence of one-character strings.  Python values that a      *)
(* variable state can take (a dict, None, an empty list) are tagged        *)
(* records, so that the paths on which the code passes None or [] where a  *)
(* dict is expected are modelled as the code runs them.                    *)
(***************************************************************************)
EXTENDS Integers, Sequences, FiniteSets, TLC

\* ------------------------------------------------------------------ bounds

\* Longest check group (number of check lines) drawn by Init.
MaxCheckLines == 3
\* Longest output group body (number of output lines) drawn by Init.
MaxOutputLines == 3
\* Largest number of check groups / output groups of a file drawn by InitFile.
MaxGroups == 2
\* Largest number of blocks of lines a parsed file is made of.
MaxBlocks == 3
\* Longest span of Not lines of the check groups drawn by InitNot.
MaxNotLines == 2
\* Longest output line handed to a call of CheckLine.match run step by step.
MaxLineLen == 3
\* Largest initialSearchFrom from which an iteration of the while loop of
\* CheckLine.match is run; Python integers have no such limit.
MaxSearchFrom == 6

\* ------------------------------------------------------------- primitives

Min(S) == CHOOSE x \in S : \A y \in S : x <= y
Max(S) == CHOOSE x \in S : \A y \in S : x >= y

\* Python slice s[from:] (from counted from 0).
SliceFrom(s, from) == IF from >= Len(s) THEN <<>> ELSE SubSeq(s, from + 1, Len(s))
\* Python slice s[from:to].
Slice(s, from, to) == IF to <= from THEN <<>> ELSE SubSeq(s, from + 1, to)
\* Python list membership.
InList(x, list) == \E i \in 1..Len(list) : list[i] = x

\* A regular expression is a sequence of atoms; an atom matches one character
\* of a class (q = "1") or a greedy run of one or more (q = "+") or of zero
\* or more (q = "*") of them.
Digits == {"1", "2"}
Atom(cls, q) == [cls |-> cls, q |-> q]

\* re.escape(text): the expression that matches text literally.
ReEscape(text) == [i \in 1..Len(text) |-> Atom({text[i]}, "1")]

\* Length of the longest run of characters of cls in s after position pos.
Run(cls, s, pos) ==
  Max({k \in 0..(Len(s) - pos) : \A j \in 1..k : s[pos + j] \in cls})

\* Backtracking match of atoms i.. of p on s from position pos: the end
\* position of the match the engine prefers (greedy), or -1.
RECURSIVE ReMatchFrom(_, _, _, _)
ReMatchFrom(p, i, s, pos) ==
  IF i > Len(p) THEN pos
  ELSE IF p[i].q = "1"
       THEN IF pos < Len(s) /\ s[pos + 1] \in p[i].cls
            THEN ReMatchFrom(p, i + 1, s, pos + 1)
            ELSE -1
       ELSE LET ends == {k \in (IF p[i].q = "*" THEN 0 ELSE 1)..Run(p[i].cls, s, pos) :
                            ReMatchFrom(p, i + 1, s, pos + k) # -1}
            IN  IF ends = {} THEN -1
                ELSE ReMatchFrom(p, i + 1, s, pos + Max(ends))

\* re.match(p, s): end of the match anchored at the start of s, or -1.
ReMatch(p, s) == ReMatchFrom(p, 1, s, 0)

\* re.search(p, s): start of the leftmost match of p in s, or -1.
ReSearch(p, s) ==
  LET starts == {st \in 0..Len(s) : ReMatch(p, SliceFrom(s, st)) # -1}
  IN  IF starts = {} THEN -1 ELSE Min(starts)

\* ------------------------------------------------------- variable states

NoMap == [n \in {} |-> <<>>]
Dict(m) == [kind |-> "dict", map |-> m]
EmptyDict == Dict(NoMap)
NoneVal == [kind |-> "None", map |-> NoMap]
EmptyList == [kind |-> "list", map |-> NoMap]

\* varState[name] = value on a dict.
Bind(m, name, value) ==
  [n \in DOMAIN m \cup {name} |-> IF n = name THEN value ELSE m[n]]

\* ---------------------------------------------------------- check elements

\* CheckElement.parseText
ParseText(text) == [variant |-> "Text", name |-> "", pattern |-> ReEscape(text)]
\* CheckElement.parseVariable, reference: [[name]]
VarRef(name) == [variant |-> "VarRef", name |-> name, pattern |-> <<>>]
\* CheckElement.parseVariable, definition: [[name:body]]
VarDef(name, body) == [variant |-> "VarDef", name |-> name, pattern |-> body]

\* CheckLine: the parsed elements, the assertion type and the line number.
CheckLine(lineParts, variant, lineNo) ==
  [lineParts |-> lineParts, variant |-> variant, lineNo |-> lineNo]

\* ------------------------------------------------------- CheckLine.match

\* Outcome of a call that returns a variable state, returns None or raises.
Matched(vs) == [res |-> "match", vars |-> vs, err |-> ""]
NoMatch == [res |-> "none", vars |-> NoneVal, err |-> ""]
Raise(err) == [res |-> "error", vars |-> NoneVal, err |-> err]

\* A variant of __generatePattern that substitutes a reference to a bound
\* variable with a pattern for any run of digits, not with the bound value.
GeneratePatternAnyDigits(linePart, varState) ==
  IF linePart.variant = "VarRef"
  THEN IF varState.kind # "dict"
       THEN [err |-> "TypeError", pattern |-> <<>>]
       ELSE IF linePart.name \notin DOMAIN varState.map
            THEN [err |-> "UndefinedVariable", pattern |-> <<>>]
            ELSE [err |-> "", pattern |-> <<Atom(Digits, "+")>>]
  ELSE [err |-> "", pattern |-> linePart.pattern]

\* CheckLine.__generatePattern: the pattern of an element, or the exception.
\* Subscripting None or a list with a name raises TypeError, not KeyError.
GeneratePattern(linePart, varState) ==
  IF linePart.variant = "VarRef"
  THEN IF varState.kind # "dict"
       THEN [err |-> "TypeError", pattern |-> <<>>]
       ELSE IF linePart.name \notin DOMAIN varState.map
            THEN [err |-> "UndefinedVariable", pattern |-> <<>>]
            ELSE [err |-> "", pattern |-> ReEscape(varState.map[linePart.name])]
  ELSE [err |-> "", pattern |-> linePart.pattern]

\* A variant of the loop over self.lineParts that does not look for an earlier
\* binding of a defined variable and overwrites it.
RECURSIVE MatchPartsOverwrite(_, _, _, _, _)
MatchPartsOverwrite(lineParts, outputLine, i, matchStart, varState) ==
  IF i > Len(lineParts) THEN Matched(Dict(varState))
  ELSE LET part == lineParts[i]
           gen == GeneratePattern(part, Dict(varState))
           end == ReMatch(gen.pattern, SliceFrom(outputLine, matchStart))
           matchEnd == matchStart + end
       IN  IF gen.err # "" THEN Raise(gen.err)
           ELSE IF end = -1 THEN NoMatch
           ELSE IF part.variant = "VarDef"
                THEN MatchPartsOverwrite(lineParts, outputLine, i + 1, matchEnd,
                       [n \in DOMAIN varState \cup {part.name} |->
                          IF n = part.name
                          THEN Slice(outputLine, matchStart, matchEnd)
                          ELSE varState[n]])
                ELSE MatchPartsOverwrite(lineParts, outputLine, i + 1, matchEnd,
                                         varState)

\* The loop over self.lineParts of CheckLine.match, from element i with the
\* shadow variable state varState (a map) and the match position matchStart.
RECURSIVE MatchParts(_, _, _, _, _)
MatchParts(lineParts, outputLine, i, matchStart, varState) ==
  IF i > Len(lineParts) THEN Matched(Dict(varState))
  ELSE LET part == lineParts[i]
           gen == GeneratePattern(part, Dict(varState))
           end == ReMatch(gen.pattern, SliceFrom(outputLine, matchStart))
           matchEnd == matchStart + end
       IN  IF gen.err # "" THEN Raise(gen.err)
           ELSE IF end = -1 THEN NoMatch
           ELSE IF part.variant = "VarDef"
                THEN IF part.name \in DOMAIN varState
                     THEN Raise("Redefinition")
                     ELSE MatchParts(lineParts, outputLine, i + 1, matchEnd,
                            Bind(varState, part.name,
                                 Slice(outputLine, matchStart, matchEnd)))
                ELSE MatchParts(lineParts, outputLine, i + 1, matchEnd, varState)

\* The variable state that the loop over self.lineParts has built when it
\* stops, had it been built in the caller's table and not in a shadow copy.
RECURSIVE BindingsWhenStopped(_, _, _, _, _)
BindingsWhenStopped(lineParts, outputLine, i, matchStart, varState) ==
  IF i > Len(lineParts) THEN varState
  ELSE LET part == lineParts[i]
           gen == GeneratePattern(part, Dict(varState))
           end == ReMatch(gen.pattern, SliceFrom(outputLine, matchStart))
           matchEnd == matchStart + end
       IN  IF gen.err # "" \/ end = -1 THEN varState
           ELSE IF part.variant = "VarDef" /\ part.name \notin DOMAIN varState
                THEN BindingsWhenStopped(lineParts, outputLine, i + 1, matchEnd,
                       Bind(varState, part.name,
                            Slice(outputLine, matchStart, matchEnd)))
                ELSE BindingsWhenStopped(lineParts, outputLine, i + 1, matchEnd,
                                         varState)

\* A variant of the while loop of CheckLine.match with no shadow copy: the
\* bindings of an attempt that stops half-way stay in the table.
RECURSIVE MatchLoopNoCopy(_, _, _, _, _)
MatchLoopNoCopy(lineParts, outputLine, initialVarState, initialPattern, initialSearchFrom) ==
  LET first == ReSearch(initialPattern, SliceFrom(outputLine, initialSearchFrom))
      matchStart == initialSearchFrom + first
      attempt == MatchParts(lineParts, outputLine, 1, matchStart, initialVarState.map)
  IN  IF first = -1 THEN NoMatch
      ELSE IF initialVarState.kind = "None" THEN Raise("TypeError")
      ELSE IF attempt.res = "none"
           THEN MatchLoopNoCopy(lineParts, outputLine,
                  Dict(BindingsWhenStopped(lineParts, outputLine, 1, matchStart,
                                           initialVarState.map)),
                  initialPattern, initialSearchFrom + first + 1)
           ELSE attempt

\* The while loop of CheckLine.match from the search position
\* initialSearchFrom.  dict(None) raises TypeError; dict([]) is {}.
RECURSIVE MatchLoop(_, _, _, _, _)
MatchLoop(lineParts, outputLine, initialVarState, initialPattern, initialSearchFrom) ==
  LET first == ReSearch(initialPattern, SliceFrom(outputLine, initialSearchFrom))
      matchStart == initialSearchFrom + first
      attempt == MatchParts(lineParts, outputLine, 1, matchStart, initialVarState.map)
  IN  IF first = -1 THEN NoMatch
      ELSE IF initialVarState.kind = "None" THEN Raise("TypeError")
      ELSE IF attempt.res = "none"
           THEN MatchLoop(lineParts, outputLine, initialVarState, initialPattern,
                          initialSearchFrom + first + 1)
           ELSE attempt

\* CheckLine.match(outputLine, initialVarState)
Match(checkLine, outputLine, initialVarState) ==
  LET gen == GeneratePattern(checkLine.lineParts[1], initialVarState)
  IN  IF gen.err # "" THEN Raise(gen.err)
      ELSE MatchLoop(checkLine.lineParts, outputLine, initialVarState, gen.pattern, 0)

\* ------------------------------------------------------------ CheckGroup

\* CheckGroup.__headAndTail
HeadAndTail(list) == <<Head(list), Tail(list)>>

\* CheckGroup.__splitByVariant: the longest prefix of lines of the given
\* variant, and the rest.
SplitByVariant(lines, variant) ==
  LET i == Max({k \in 0..Len(lines) : \A j \in 1..k : lines[j].variant = variant})
  IN  <<Slice(lines, 0, i), SliceFrom(lines, i)>>

\* A variant of __nextIndependentChecks that extracts one DAG line at a time,
\* as it does for an InOrder line.
NextIndependentChecksOneByOne(lines) ==
  LET byNot == SplitByVariant(lines, "Not")
      rest == byNot[2]
  IN  IF rest = <<>> THEN <<byNot[1], <<>>, <<>>>>
      ELSE <<byNot[1], <<HeadAndTail(rest)[1]>>, HeadAndTail(rest)[2]>>

\* A variant of __nextIndependentChecks that extracts one Not line at a time,
\* with no independent line after it.
NextIndependentChecksNotByNot(lines) ==
  LET byNot == SplitByVariant(lines, "Not")
      rest == byNot[2]
      byDag == SplitByVariant(rest, "DAG")
  IN  IF byNot[1] # <<>> THEN <<<<Head(lines)>>, <<>>, Tail(lines)>>
      ELSE IF rest = <<>> THEN <<byNot[1], <<>>, <<>>>>
      ELSE IF HeadAndTail(rest)[1].variant = "InOrder"
           THEN <<byNot[1], <<HeadAndTail(rest)[1]>>, HeadAndTail(rest)[2]>>
           ELSE <<byNot[1], byDag[1], byDag[2]>>

\* CheckGroup.__nextIndependentChecks: <<notChecks, independentChecks, rest>>
NextIndependentChecksOf(lines) ==
  LET byNot == SplitByVariant(lines, "Not")
      rest == byNot[2]
      byDag == SplitByVariant(rest, "DAG")
  IN  IF rest = <<>> THEN <<byNot[1], <<>>, <<>>>>
      ELSE IF HeadAndTail(rest)[1].variant = "InOrder"
           THEN <<byNot[1], <<HeadAndTail(rest)[1]>>, HeadAndTail(rest)[2]>>
           ELSE <<byNot[1], byDag[1], byDag[2]>>

\* CheckGroup.__findFirstMatch from output line matchLineNo on: the number of
\* the first line outside lineFilter that matches (-1 if none) and the new
\* variable state (None if none), or the exception raised by the probe of
\* line number no.
RECURSIVE FindFirstMatchFrom(_, _, _, _, _)
FindFirstMatchFrom(checkLine, outputLines, lineFilter, varState, matchLineNo) ==
  IF matchLineNo > Len(outputLines)
  THEN [no |-> -1, vars |-> NoneVal, err |-> ""]
  ELSE IF InList(matchLineNo, lineFilter)
       THEN FindFirstMatchFrom(checkLine, outputLines, lineFilter, varState,
                               matchLineNo + 1)
       ELSE LET r == Match(checkLine, outputLines[matchLineNo], varState)
            IN  IF r.res = "error"
                THEN [no |-> matchLineNo, vars |-> NoneVal, err |-> r.err]
                ELSE IF r.res = "match"
                     THEN [no |-> matchLineNo, vars |-> r.vars, err |-> ""]
                     ELSE FindFirstMatchFrom(checkLine, outputLines, lineFilter,
                                             varState, matchLineNo + 1)

\* A variant of __findFirstMatch that does not skip the lines of lineFilter.
FindFirstMatchReusing(checkLine, outputLines, lineFilter, varState) ==
  FindFirstMatchFrom(checkLine, outputLines, <<>>, varState, 1)

\* CheckGroup.__findFirstMatch
FindFirstMatch(checkLine, outputLines, lineFilter, varState) ==
  FindFirstMatchFrom(checkLine, outputLines, lineFilter, varState, 1)

\* The loop of CheckGroup.__matchIndependentChecks from check line i.
RECURSIVE MatchChecksFrom(_, _, _, _, _)
MatchChecksFrom(checkLines, i, outputLines, matchedLines, varState) ==
  IF i > Len(checkLines)
  THEN [err |-> "", line |-> 0, at |-> 0, matchedLines |-> matchedLines,
        vars |-> varState]
  ELSE LET r == FindFirstMatch(checkLines[i], outputLines, matchedLines, varState)
       IN  IF r.err # ""
           THEN [err |-> r.err, line |-> i, at |-> r.no,
                 matchedLines |-> matchedLines, vars |-> NoneVal]
           ELSE IF r.vars.kind = "None"
                THEN [err |-> "CouldNotMatch", line |-> i, at |-> 0,
                      matchedLines |-> matchedLines, vars |-> NoneVal]
                ELSE MatchChecksFrom(checkLines, i + 1, outputLines,
                                     Append(matchedLines, r.no), r.vars)

\* The numbers of a list of line numbers, as a set.
Numbers(list) == {list[i] : i \in 1..Len(list)}

\* A variant of __matchIndependentChecks that takes the lines before the last
\* matched line, not before the first, as the preceding lines.
MatchIndependentChecksBeforeLast(checkLines, outputLines, varState) ==
  LET r == MatchChecksFrom(checkLines, 1, outputLines, <<>>, varState)
  IN  IF checkLines = <<>>
      THEN [err |-> "", line |-> 0, at |-> 0, matchedLines |-> <<>>,
            ret |-> <<outputLines, varState, EmptyList>>]
      ELSE IF r.err # ""
           THEN [err |-> r.err, line |-> r.line, at |-> r.at,
                 matchedLines |-> r.matchedLines, ret |-> <<>>]
           ELSE [err |-> "", line |-> 0, at |-> 0, matchedLines |-> r.matchedLines,
                 ret |-> <<Slice(outputLines, 0, Max(Numbers(r.matchedLines)) - 1),
                           SliceFrom(outputLines, Max(Numbers(r.matchedLines))),
                           r.vars>>]

\* A variant of __matchIndependentChecks whose remaining lines start at the
\* last matched line, not after it.
MatchIndependentChecksKeepLast(checkLines, outputLines, varState) ==
  LET r == MatchChecksFrom(checkLines, 1, outputLines, <<>>, varState)
  IN  IF checkLines = <<>>
      THEN [err |-> "", line |-> 0, at |-> 0, matchedLines |-> <<>>,
            ret |-> <<outputLines, varState, EmptyList>>]
      ELSE IF r.err # ""
           THEN [err |-> r.err, line |-> r.line, at |-> r.at,
                 matchedLines |-> r.matchedLines, ret |-> <<>>]
           ELSE [err |-> "", line |-> 0, at |-> 0, matchedLines |-> r.matchedLines,
                 ret |-> <<Slice(outputLines, 0, Min(Numbers(r.matchedLines)) - 1),
                           SliceFrom(outputLines, Max(Numbers(r.matchedLines)) - 1),
                           r.vars>>]

\* A variant of __matchIndependentChecks whose remaining lines start after
\* the line matched last, not after the highest matched line.
MatchIndependentChecksAfterLastMatched(checkLines, outputLines, varState) ==
  LET r == MatchChecksFrom(checkLines, 1, outputLines, <<>>, varState)
  IN  IF checkLines = <<>>
      THEN [err |-> "", line |-> 0, at |-> 0, matchedLines |-> <<>>,
            ret |-> <<outputLines, varState, EmptyList>>]
      ELSE IF r.err # ""
           THEN [err |-> r.err, line |-> r.line, at |-> r.at,
                 matchedLines |-> r.matchedLines, ret |-> <<>>]
           ELSE [err |-> "", line |-> 0, at |-> 0, matchedLines |-> r.matchedLines,
                 ret |-> <<Slice(outputLines, 0, Min(Numbers(r.matchedLines)) - 1),
                           SliceFrom(outputLines, r.matchedLines[Len(r.matchedLines)]),
                           r.vars>>]

\* A variant of __matchIndependentChecks that, with no check lines, returns
\* no output line as the lines that precede the matches.
MatchIndependentChecksNoRemaining(checkLines, outputLines, varState) ==
  LET r == MatchChecksFrom(checkLines, 1, outputLines, <<>>, varState)
  IN  IF checkLines = <<>>
      THEN [err |-> "", line |-> 0, at |-> 0, matchedLines |-> <<>>,
            ret |-> <<<<>>, varState, EmptyList>>]
      ELSE IF r.err # ""
           THEN [err |-> r.err, line |-> r.line, at |-> r.at,
                 matchedLines |-> r.matchedLines, ret |-> <<>>]
           ELSE [err |-> "", line |-> 0, at |-> 0, matchedLines |-> r.matchedLines,
                 ret |-> <<Slice(outputLines, 0, Min(Numbers(r.matchedLines)) - 1),
                           SliceFrom(outputLines, Max(Numbers(r.matchedLines))),
                           r.vars>>]

\* CheckGroup.__matchIndependentChecks, lines 350-358, once the loop over the
\* check lines has given r: the exception, or the returned triple ret.
IndependentChecksResult(r, outputLines) ==
  IF r.err # ""
  THEN [err |-> r.err, line |-> r.line, at |-> r.at,
        matchedLines |-> r.matchedLines, ret |-> <<>>]
  ELSE [err |-> "", line |-> 0, at |-> 0, matchedLines |-> r.matchedLines,
        ret |-> <<Slice(outputLines, 0, Min(Numbers(r.matchedLines)) - 1),
                  SliceFrom(outputLines, Max(Numbers(r.matchedLines))),
                  r.vars>>]

\* CheckGroup.__matchIndependentChecks: the exception, or the returned triple
\* ret.  With no check lines the triple is (outputLines, varState, []).
MatchIndependentChecks(checkLines, outputLines, varState) ==
  IF checkLines = <<>>
  THEN [err |-> "", line |-> 0, at |-> 0, matchedLines |-> <<>>,
        ret |-> <<outputLines, varState, EmptyList>>]
  ELSE IndependentChecksResult(
         MatchChecksFrom(checkLines, 1, outputLines, <<>>, varState), outputLines)

\* The loop of CheckGroup.__matchNotLines from check line i.  The result of
\* __findFirstMatch is assigned to varState, which is None after a check line
\* that matched nothing.
RECURSIVE MatchNotFrom(_, _, _, _)
MatchNotFrom(checkLines, i, outputLines, varState) ==
  IF i > Len(checkLines) THEN [err |-> "", line |-> 0, at |-> 0]
  ELSE LET r == FindFirstMatch(checkLines[i], outputLines, <<>>, varState)
       IN  IF r.err # "" THEN [err |-> r.err, line |-> i, at |-> r.no]
           ELSE IF r.vars.kind # "None"
                THEN [err |-> "NotLineMatches", line |-> i, at |-> r.no]
                ELSE MatchNotFrom(checkLines, i + 1, outputLines, r.vars)

\* CheckGroup.__matchNotLines
MatchNotLines(checkLines, outputLines, varState) ==
  MatchNotFrom(checkLines, 1, outputLines, varState)

\* ------------------------------------------------------------------ state

VARIABLES
  groups,             \* CheckFile.groups: the check groups, in file order
  outputGroups,       \* OutputFile.groups: the output groups, in file order
  gi,                 \* CheckFile.match: index of the check group of the for loop
  checkGroup,         \* CheckFile.match: the check group being matched
  outputGroup,        \* CheckFile.match: the output group found for it
  varState,           \* CheckGroup.match: varState
  checkLines,         \* CheckGroup.match: checkLines still to be matched
  outputLines,        \* CheckGroup.match: outputLines still to be searched
  notChecks,          \* CheckGroup.match: notChecks of the current iteration
  independentChecks,  \* CheckGroup.match: independentChecks of the iteration
  notOutput,          \* CheckGroup.match: notOutput of the current iteration
  newVarState,        \* CheckGroup.match: newVarState of the current iteration
  pc,                 \* position of the control in CheckFile/CheckGroup.match
  failure,            \* the exception raised, if any
  hist,               \* history: one record per matched independent span
  log,                \* history: the events of CheckFile.match, in order
  stream,             \* _parseStream: the lines of the stream
  lineNo,             \* _parseStream: lineNo
  allGroups,          \* _parseStream: allGroups, the (name, lines) pairs
  currentGroup,       \* _parseStream: index of currentGroup in allGroups, 0 if None
  state,              \* OutputFile.state
  lastMethodName,     \* OutputFile.lastMethodName, <<>> if None
  parseError,         \* the exception raised by the parser, if any
  readIn,             \* history: the parsing state each line was read in
  callLine,           \* CheckLine.match: self, the check line
  callOutput,         \* CheckLine.match: outputLine
  callVarState,       \* CheckLine.match: initialVarState
  searchPattern,      \* CheckLine.match: initialPattern
  searchFrom,         \* CheckLine.match: initialSearchFrom
  attempts,           \* history: matchStart of every attempt of the call
  callResult          \* CheckLine.match: what the call returned or raised

vars == <<groups, outputGroups, gi, checkGroup, outputGroup, varState, checkLines,
          outputLines, notChecks, independentChecks, notOutput, newVarState, pc,
          failure, hist, log, stream, lineNo, allGroups, currentGroup, state,
          lastMethodName, parseError, readIn, callLine, callOutput, callVarState,
          searchPattern, searchFrom, attempts, callResult>>

\* The state of a call of CheckLine.match that is run step by step.
callVars == <<callLine, callOutput, callVarState, searchPattern, searchFrom,
              attempts, callResult>>

\* The state of the parser of a file.
parseVars == <<stream, lineNo, allGroups, currentGroup, state, lastMethodName,
               parseError, readIn>>
\* The files, and the state of their parser.
fileVars == <<groups, outputGroups, parseVars>>
matchVars == <<varState, checkLines, outputLines, notChecks, independentChecks,
               notOutput, newVarState, hist>>

NoFailure == [kind |-> "", in |-> "", line |-> <<>>, at |-> 0]
NoGroup == [name |-> "", lines |-> <<>>]
NoOutputGroup == [name |-> "", body |-> <<>>]

\* No file is being parsed.
ParserIdle ==
  /\ stream = <<>>
  /\ lineNo = 0
  /\ allGroups = <<>>
  /\ currentGroup = 0
  /\ state = "OutsideBlock"
  /\ lastMethodName = <<>>
  /\ parseError = ""
  /\ readIn = <<>>

\* The result of a call that has not returned.
Running == [res |-> "", vars |-> NoneVal, err |-> ""]

\* No call of CheckLine.match is run step by step.
CallIdle ==
  /\ callLine = CheckLine(<<>>, "InOrder", -1)
  /\ callOutput = <<>>
  /\ callVarState = EmptyDict
  /\ searchPattern = <<>>
  /\ searchFrom = 0
  /\ attempts = <<>>
  /\ callResult = Running

\* ------------------------------------------------------------------ inputs

\* Sequences over S of length 1..n.
SeqsUpTo(S, n) == UNION {[1..k -> S] : k \in 1..n}

DigitsPlus == <<Atom(Digits, "+")>>

\* The element lists of the check lines drawn:  1,  2,  [[X:[0-9]+]],  [[X]].
LinePartsSet ==
  { <<ParseText(<<"1">>)>>,
    <<ParseText(<<"2">>)>>,
    <<VarDef("X", DigitsPlus)>>,
    <<VarRef("X")>> }

Variants == {"InOrder", "DAG", "Not"}

HasVarDef(lineParts) == \E i \in 1..Len(lineParts) : lineParts[i].variant = "VarDef"

\* The check lines CheckFile._processGroup can build: CheckLine.__parse rejects
\* a definition in a CHECK-NOT line, and _processGroup passes no line number,
\* so lineNo keeps its default of -1.
CheckLineSet ==
  { CheckLine(lp, v, -1) : lp \in LinePartsSet, v \in Variants } \
  { CheckLine(lp, "Not", -1) : lp \in {l \in LinePartsSet : HasVarDef(l)} }

\* The output lines drawn:  v1,  v2.
OutputLineSet == { <<"v", "1">>, <<"v", "2">> }

GroupNames == {"g1", "g2"}

\* CheckGroup.__init__ and OutputGroup.__init__ reject an empty name and an
\* empty body.
CheckGroupSet(names) ==
  { [name |-> n, lines |-> l] : n \in names, l \in SeqsUpTo(CheckLineSet, MaxCheckLines) }
OutputGroupSet(names) ==
  { [name |-> n, body |-> b] : n \in names, b \in SeqsUpTo(OutputLineSet, MaxOutputLines) }

\* ------------------------------------------------------------------- Init

\* One check group of checkGroupSet about to be matched against one output
\* group of outputGroupSet.
InitOf(checkGroupSet, outputGroupSet) ==
  /\ checkGroup \in checkGroupSet
  /\ outputGroup \in outputGroupSet
  /\ groups = <<checkGroup>>
  /\ outputGroups = <<outputGroup>>
  /\ gi = 1
  /\ varState = EmptyDict
  /\ checkLines = <<>>
  /\ outputLines = <<>>
  /\ notChecks = <<>>
  /\ independentChecks = <<>>
  /\ notOutput = <<>>
  /\ newVarState = EmptyDict
  /\ pc = "match"
  /\ failure = NoFailure
  /\ hist = <<>>
  /\ log = <<>>
  /\ ParserIdle
  /\ CallIdle

Init == InitOf(CheckGroupSet({"g1"}), OutputGroupSet({"g1"}))

\* ---------------------------------------------------------------- actions

\* An event of the history log: what happened, and for which check group.
Event(ev, g) == [ev |-> ev, group |-> g]

\* Number of lines of the output group that precede outputLines[1].
Offset == Len(outputGroup.body) - Len(outputLines)

\* A variant of the beginning of CheckGroup.match that keeps the variable
\* state of the previous run.
MatchBeginKeepVarState ==
  /\ pc = "match"
  /\ varState' = varState
  /\ checkLines' = checkGroup.lines
  /\ outputLines' = outputGroup.body
  /\ hist' = <<>>
  /\ pc' = "loop"
  /\ log' = Append(log, Event("match", gi))
  /\ UNCHANGED <<fileVars, callVars, gi, checkGroup, outputGroup, notChecks,
                 independentChecks, notOutput, newVarState, failure>>

\* CheckGroup.match, lines 373-375.
MatchBegin ==
  /\ pc = "match"
  /\ varState' = EmptyDict
  /\ checkLines' = checkGroup.lines
  /\ outputLines' = outputGroup.body
  /\ hist' = <<>>
  /\ pc' = "loop"
  /\ log' = Append(log, Event("match", gi))
  /\ UNCHANGED <<fileVars, callVars, gi, checkGroup, outputGroup, notChecks,
                 independentChecks, notOutput, newVarState, failure>>

\* CheckGroup.match, lines 377-387: one iteration of the while loop.  The next
\* spans are extracted, the independent checks are matched, the Not checks are
\* run on the lines that precede the matches, and the variable state is
\* updated.  Either call may raise, which ends the run.
MatchIteration ==
  /\ pc = "loop"
  /\ checkLines # <<>>
  /\ \E next \in {NextIndependentChecksOf(checkLines)} :
     \E ind \in {MatchIndependentChecks(next[2], outputLines, varState)} :
       /\ notChecks' = next[1]
       /\ independentChecks' = next[2]
       /\ checkLines' = next[3]
       /\ IF ind.err # ""
          THEN /\ pc' = "raised"
               /\ failure' = [kind |-> ind.err, in |-> "matchIndependentChecks",
                              line |-> next[2][ind.line],
                              at |-> IF ind.at > 0 THEN Offset + ind.at ELSE 0]
               /\ log' = Append(log, Event("raise", gi))
               /\ UNCHANGED <<notOutput, outputLines, newVarState, varState, hist>>
          ELSE \E neg \in {MatchNotLines(next[1], ind.ret[1], varState)} :
               /\ notOutput' = ind.ret[1]
               /\ outputLines' = ind.ret[2]
               /\ newVarState' = ind.ret[3]
               /\ hist' = Append(hist,
                    [notChecks |-> next[1],
                     independentChecks |-> next[2],
                     matched |-> [i \in 1..Len(ind.matchedLines) |->
                                     Offset + ind.matchedLines[i]],
                     lo |-> Offset,
                     window |-> (Offset + 1)..(Offset + Len(ind.ret[1])),
                     varsIn |-> varState,
                     varsOut |-> ind.ret[3],
                     notErr |-> neg.err])
               /\ IF neg.err # ""
                  THEN /\ pc' = "raised"
                       /\ failure' = [kind |-> neg.err, in |-> "matchNotLines",
                                      line |-> next[1][neg.line],
                                      at |-> IF neg.at > 0 THEN Offset + neg.at
                                             ELSE 0]
                       /\ log' = Append(log, Event("raise", gi))
                       /\ UNCHANGED varState
                  ELSE /\ pc' = "loop"
                       /\ varState' = ind.ret[3]
                       /\ failure' = failure
                       /\ log' = log
  /\ UNCHANGED <<fileVars, callVars, gi, checkGroup, outputGroup>>

\* CheckGroup.match, line 377: no check line is left and the call returns.
MatchReturn ==
  /\ pc = "loop"
  /\ checkLines = <<>>
  /\ pc' = "returned"
  /\ UNCHANGED <<fileVars, callVars, gi, checkGroup, outputGroup, matchVars, failure, log>>

\* A variant of findGroup that returns the last group of that name.
FindGroupLast(outGroups, name) ==
  LET found == {i \in 1..Len(outGroups) : outGroups[i].name = name}
  IN  IF found = {} THEN NoOutputGroup ELSE outGroups[Max(found)]

\* OutputFile.findGroup: the first group of that name, or None.
FindGroup(outGroups, name) ==
  LET found == {i \in 1..Len(outGroups) : outGroups[i].name = name}
  IN  IF found = {} THEN NoOutputGroup ELSE outGroups[Min(found)]

\* A variant of the for loop of CheckFile.match that goes on to the next check
\* group after a failure.
FileNextGroupAfterFailure ==
  /\ pc \in {"file", "returned", "raised"}
  /\ gi < Len(groups)
  /\ gi' = gi + 1
  /\ checkGroup' = groups[gi + 1]
  /\ outputGroup' = FindGroup(outputGroups, groups[gi + 1].name)
  /\ IF outputGroup' = NoOutputGroup
     THEN /\ pc' = "raised"
          /\ failure' = [kind |-> "GroupNotFound", in |-> "CheckFile.match",
                         line |-> <<>>, at |-> 0]
          /\ log' = log \o <<Event("find", gi + 1), Event("raise", gi + 1)>>
     ELSE /\ pc' = "match"
          /\ failure' = failure
          /\ log' = Append(log, Event("find", gi + 1))
  /\ UNCHANGED <<fileVars, callVars, matchVars>>

\* CheckFile.match, lines 492-502: the for loop takes the next check group,
\* looks up the output group of its name and raises if there is none;
\* otherwise checkGroup.match is called.
FileNextGroup ==
  /\ pc \in {"file", "returned"}
  /\ gi < Len(groups)
  /\ gi' = gi + 1
  /\ checkGroup' = groups[gi + 1]
  /\ outputGroup' = FindGroup(outputGroups, groups[gi + 1].name)
  /\ IF outputGroup' = NoOutputGroup
     THEN /\ pc' = "raised"
          /\ failure' = [kind |-> "GroupNotFound", in |-> "CheckFile.match",
                         line |-> <<>>, at |-> 0]
          /\ log' = log \o <<Event("find", gi + 1), Event("raise", gi + 1)>>
     ELSE /\ pc' = "match"
          /\ failure' = failure
          /\ log' = Append(log, Event("find", gi + 1))
  /\ UNCHANGED <<fileVars, callVars, matchVars>>

\* CheckFile.match: the for loop is over and the call returns.
FileReturn ==
  /\ pc \in {"file", "returned"}
  /\ gi = Len(groups)
  /\ pc' = "done"
  /\ UNCHANGED <<fileVars, callVars, gi, checkGroup, outputGroup, matchVars, failure, log>>

Next ==
  \/ MatchBegin
  \/ MatchIteration
  \/ MatchReturn

Spec == Init /\ [][Next]_vars

\* ------------------------------------- groups of variable lines only

\* The check lines  [[X:[0-9]+]]  and  [[X]]  in every variant that parses.
VarCheckLineSet ==
  { CheckLine(<<VarDef("X", DigitsPlus)>>, v, -1) : v \in {"InOrder", "DAG"} } \cup
  { CheckLine(<<VarRef("X")>>, v, -1) : v \in Variants }

\* The output lines drawn:  v1,  v2,  v12.
VarOutputLineSet == { <<"v", "1">>, <<"v", "2">>, <<"v", "1", "2">> }

\* One group of variable lines about to be matched against an output group
\* whose lines carry one or two digits.
InitVars ==
  InitOf({ [name |-> "g1", lines |-> l] : l \in SeqsUpTo(VarCheckLineSet, MaxCheckLines) },
         { [name |-> "g1", body |-> b] : b \in SeqsUpTo(VarOutputLineSet, MaxOutputLines) })

SpecVars == InitVars /\ [][Next]_vars

\* ------------------------------------------------- CheckFile.match runs

\* Sequences over S of length 0..n.
SeqsFromZero(S, n) == {<<>>} \cup SeqsUpTo(S, n)

\* The check lines of the groups of a file:  [[X:[0-9]+]],  [[X]],  1.
FileLinesSet ==
  { <<CheckLine(<<VarDef("X", DigitsPlus)>>, "InOrder", -1)>>,
    <<CheckLine(<<VarRef("X")>>, "InOrder", -1)>>,
    <<CheckLine(<<ParseText(<<"1">>)>>, "InOrder", -1),
      CheckLine(<<ParseText(<<"2">>)>>, "Not", -1)>> }

FileBodySet == { <<<<"v", "1">>>>, <<<<"v", "2">>, <<"v", "1">>>> }

\* A check file and an output file of up to MaxGroups groups each, before
\* CheckFile.match is called.
InitFile ==
  /\ groups \in SeqsFromZero({[name |-> n, lines |-> l] :
                                 n \in GroupNames, l \in FileLinesSet}, MaxGroups)
  /\ outputGroups \in SeqsFromZero({[name |-> n, body |-> b] :
                                       n \in GroupNames, b \in FileBodySet}, MaxGroups)
  /\ gi = 0
  /\ checkGroup = NoGroup
  /\ outputGroup = NoOutputGroup
  /\ varState = EmptyDict
  /\ checkLines = <<>>
  /\ outputLines = <<>>
  /\ notChecks = <<>>
  /\ independentChecks = <<>>
  /\ notOutput = <<>>
  /\ newVarState = EmptyDict
  /\ pc = "file"
  /\ failure = NoFailure
  /\ hist = <<>>
  /\ log = <<>>
  /\ ParserIdle
  /\ CallIdle

NextFile ==
  \/ FileNextGroup
  \/ FileReturn
  \/ MatchBegin
  \/ MatchIteration
  \/ MatchReturn

SpecFile == InitFile /\ [][NextFile]_vars


\* One digit.
OneDigit == <<Atom(Digits, "1")>>

\* The check lines of several elements:  [[X:\d]]2,  [[Y:\d]],
\* [[Y:\d]][[X:\d]]1,  [[X]]2  and  CHECK-NOT: [[X]]1.
ChainCheckLineSet ==
  { CheckLine(<<VarDef("X", OneDigit), ParseText(<<"2">>)>>, "InOrder", -1),
    CheckLine(<<VarDef("Y", OneDigit)>>, "InOrder", -1),
    CheckLine(<<VarDef("Y", OneDigit), VarDef("X", OneDigit), ParseText(<<"1">>)>>,
              "InOrder", -1),
    CheckLine(<<VarRef("X"), ParseText(<<"2">>)>>, "InOrder", -1),
    CheckLine(<<VarRef("X"), ParseText(<<"1">>)>>, "Not", -1) }

\* The output lines drawn:  v212,  v11,  v1221.
ChainOutputLineSet ==
  { <<"v", "2", "1", "2">>, <<"v", "1", "1">>, <<"v", "1", "2", "2", "1">> }

\* One group of lines of several elements about to be matched against an
\* output group whose lines carry several digits.
InitChain ==
  InitOf({ [name |-> "g1", lines |-> l] : l \in SeqsUpTo(ChainCheckLineSet, MaxCheckLines) },
         { [name |-> "g1", body |-> b] : b \in SeqsUpTo(ChainOutputLineSet, MaxOutputLines) })

SpecChain == InitChain /\ [][Next]_vars

\* ---------------------------------- Not spans between independent spans

\* The Not lines drawn:  CHECK-NOT: [[X]],  CHECK-NOT: 1  and  CHECK-NOT: 2.
NotLineSet ==
  { CheckLine(<<VarRef("X")>>, "Not", -1),
    CheckLine(<<ParseText(<<"1">>)>>, "Not", -1),
    CheckLine(<<ParseText(<<"2">>)>>, "Not", -1) }

\* The check groups drawn: a span of up to MaxNotLines Not lines, after
\* nothing or the line  [[X:[0-9]+]],  and before nothing, the line  2  or the
\* line  [[X:[0-9]+]].
NotCheckGroupSet ==
  { [name |-> "g1", lines |-> before \o nots \o after] :
      before \in {<<>>, <<CheckLine(<<VarDef("X", DigitsPlus)>>, "InOrder", -1)>>},
      nots \in SeqsUpTo(NotLineSet, MaxNotLines),
      after \in {<<>>, <<CheckLine(<<ParseText(<<"2">>)>>, "InOrder", -1)>>,
                 <<CheckLine(<<VarDef("X", DigitsPlus)>>, "InOrder", -1)>>} }

\* The output lines drawn:  v,  v1,  v2.
NotOutputLineSet == { <<"v">>, <<"v", "1">>, <<"v", "2">> }

\* One such group about to be matched against an output group whose lines
\* carry one digit or none.
InitNot ==
  InitOf(NotCheckGroupSet,
         { [name |-> "g1", body |-> b] : b \in SeqsUpTo(NotOutputLineSet, MaxOutputLines) })

SpecNot == InitNot /\ [][Next]_vars

\* ---------------------------------------- CheckLine.match, step by step

\* CheckElement.parsePattern: {{body}}
ParsePattern(body) == [variant |-> "Pattern", name |-> "", pattern |-> body]

\* Any run of digits, the empty one included.
DigitsStar == <<Atom(Digits, "*")>>

\* CheckLine.match, lines 235-236: the search starts at 0 and the pattern of
\* the first element is generated, which raises on an undefined variable.
CallBegin ==
  /\ pc = "call"
  /\ searchFrom' = 0
  /\ \E gen \in {GeneratePattern(callLine.lineParts[1], callVarState)} :
       IF gen.err # ""
       THEN /\ pc' = "called"
            /\ callResult' = Raise(gen.err)
            /\ UNCHANGED searchPattern
       ELSE /\ pc' = "retry"
            /\ searchPattern' = gen.pattern
            /\ UNCHANGED callResult
  /\ UNCHANGED <<fileVars, gi, checkGroup, outputGroup, matchVars, failure, log,
                 callLine, callOutput, callVarState, attempts>>

\* CheckLine.match, lines 237-273: one iteration of the while loop.  The first
\* element is searched for in outputLine[initialSearchFrom:]; with no match
\* the call returns None.  Otherwise every element is matched from the start
\* found and the call returns or raises, or the chain fails and the loop goes
\* on from one character after the start found.  A slice that starts past the
\* end of the line is the empty string.
CallAttempt ==
  /\ pc = "retry"
  /\ searchFrom < MaxSearchFrom
  /\ \E first \in {ReSearch(searchPattern, SliceFrom(callOutput, searchFrom))} :
       IF first = -1
       THEN /\ pc' = "called"
            /\ callResult' = NoMatch
            /\ UNCHANGED <<searchFrom, attempts>>
       ELSE /\ searchFrom' = searchFrom + first + 1
            /\ attempts' = Append(attempts, searchFrom + first)
            /\ IF callVarState.kind = "None"
               THEN /\ pc' = "called"
                    /\ callResult' = Raise("TypeError")
               ELSE \E attempt \in {MatchParts(callLine.lineParts, callOutput, 1,
                                               searchFrom + first, callVarState.map)} :
                      IF attempt.res = "none"
                      THEN /\ pc' = "retry"
                           /\ UNCHANGED callResult
                      ELSE /\ pc' = "called"
                           /\ callResult' = attempt
  /\ UNCHANGED <<fileVars, gi, checkGroup, outputGroup, matchVars, failure, log,
                 callLine, callOutput, callVarState, searchPattern>>

\* The element lists of the check lines of the calls:  12,  {{\d+}}2,
\* {{\d*}},  {{\d*}}2,  [[Y:\d*]]2  and  [[X]]2.
CallLinePartsSet ==
  { <<ParseText(<<"1", "2">>)>>,
    <<ParsePattern(DigitsPlus), ParseText(<<"2">>)>>,
    <<ParsePattern(DigitsStar)>>,
    <<ParsePattern(DigitsStar), ParseText(<<"2">>)>>,
    <<VarDef("Y", DigitsStar), ParseText(<<"2">>)>>,
    <<VarRef("X"), ParseText(<<"2">>)>> }

\* The output lines of the calls: the lines of v, 1 and 2 of up to MaxLineLen
\* characters.
CallOutputLineSet == SeqsUpTo({"v", "1", "2"}, MaxLineLen)

\* The variable states of the calls: empty, X = "1", and X = "" as a
\* definition whose body matches the empty string binds it.
CallVarStateSet ==
  { EmptyDict, Dict(Bind(NoMap, "X", <<"1">>)), Dict(Bind(NoMap, "X", <<>>)) }

\* CheckLine.match is about to be called on one output line.
InitCall ==
  /\ callLine \in {CheckLine(lp, "InOrder", -1) : lp \in CallLinePartsSet}
  /\ callOutput \in CallOutputLineSet
  /\ callVarState \in CallVarStateSet
  /\ searchPattern = <<>>
  /\ searchFrom = 0
  /\ attempts = <<>>
  /\ callResult = Running
  /\ groups = <<>>
  /\ outputGroups = <<>>
  /\ gi = 0
  /\ checkGroup = NoGroup
  /\ outputGroup = NoOutputGroup
  /\ varState = EmptyDict
  /\ checkLines = <<>>
  /\ outputLines = <<>>
  /\ notChecks = <<>>
  /\ independentChecks = <<>>
  /\ notOutput = <<>>
  /\ newVarState = EmptyDict
  /\ pc = "call"
  /\ failure = NoFailure
  /\ hist = <<>>
  /\ log = <<>>
  /\ ParserIdle

NextCall ==
  \/ CallBegin
  \/ CallAttempt

SpecCall == InitCall /\ [][NextCall]_vars

\* ------------------------------------------------------------ file parsers

\* A line of a file is a sequence of characters; a keyword or a name stands
\* for the characters it is written with.
Whitespace == {" "}
Quote == "\""
OutputChars ==
  {" ", Quote, "name", "method", "m1", "m2", "p1", "p2", "v", "1", "2", "x",
   "begin_compilation", "end_compilation", "begin_cfg", "end_cfg"}

\* Python None, and a value that is not None.
None == <<>>
Some(x) == <<x>>

\* str.strip()
RECURSIVE LStrip(_)
LStrip(line) ==
  IF line # <<>> /\ Head(line) \in Whitespace THEN LStrip(Tail(line)) ELSE line
RECURSIVE RStrip(_)
RStrip(line) ==
  IF line # <<>> /\ line[Len(line)] \in Whitespace
  THEN RStrip(SubSeq(line, 1, Len(line) - 1))
  ELSE line
Strip(line) == RStrip(LStrip(line))

\* line.split("\"")[1]: the text between the first two quotes.
SplitQuote1(line) ==
  LET quotes == {i \in 1..Len(line) : line[i] = Quote}
      first == Min(quotes)
      second == Min(quotes \ {first})
  IN  SubSeq(line, first + 1, second - 1)

\* The expression  keyword\s+"[^"]+"  of OutputFile._processLine.
QuotedRegex(keyword) ==
  <<Atom({keyword}, "1"), Atom(Whitespace, "+"), Atom({Quote}, "1"),
    Atom(OutputChars \ {Quote}, "+"), Atom({Quote}, "1")>>

\* What _processLine returns or raises, and the parsing state it leaves.
Processed(line, group, st, last) ==
  [err |-> "", line |-> line, group |-> group, state |-> st, lastMethodName |-> last]
ProcessRaise(err, st, last) ==
  [err |-> err, line |-> None, group |-> None, state |-> st, lastMethodName |-> last]

\* A variant of OutputFile._processLine that keeps the first method name
\* recorded and drops the later ones.
OutputProcessLineFirstMethod(line, st, last) ==
  IF st = "StartingCfgBlock"
  THEN IF ReMatch(QuotedRegex("name"), line) # -1
       THEN Processed(None, Some(last \o <<" ">> \o SplitQuote1(line)),
                      "InsideCfgBlock", last)
       ELSE ProcessRaise("ExpectedGroupName", st, last)
  ELSE IF st = "InsideCfgBlock"
  THEN IF line = <<"end_cfg">>
       THEN Processed(None, None, "OutsideBlock", last)
       ELSE Processed(Some(line), None, st, last)
  ELSE IF st = "InsideCompilationBlock"
  THEN IF ReMatch(QuotedRegex("method"), line) # -1
       THEN Processed(None, None, st, IF last = None THEN SplitQuote1(line) ELSE last)
       ELSE IF line = <<"end_compilation">>
            THEN Processed(None, None, "OutsideBlock", last)
            ELSE Processed(None, None, st, last)
  ELSE IF line = <<"begin_cfg">>
       THEN IF last = None
            THEN ProcessRaise("PassWithoutMethod", st, last)
            ELSE Processed(None, None, "StartingCfgBlock", last)
       ELSE IF line = <<"begin_compilation">>
            THEN Processed(None, None, "InsideCompilationBlock", last)
            ELSE ProcessRaise("LineOutsideGroup", st, last)

\* A variant of OutputFile._processLine that ignores a stray line outside
\* the blocks.
OutputProcessLineIgnoreStray(line, st, last) ==
  IF st = "StartingCfgBlock"
  THEN IF ReMatch(QuotedRegex("name"), line) # -1
       THEN Processed(None, Some(last \o <<" ">> \o SplitQuote1(line)),
                      "InsideCfgBlock", last)
       ELSE ProcessRaise("ExpectedGroupName", st, last)
  ELSE IF st = "InsideCfgBlock"
  THEN IF line = <<"end_cfg">>
       THEN Processed(None, None, "OutsideBlock", last)
       ELSE Processed(Some(line), None, st, last)
  ELSE IF st = "InsideCompilationBlock"
  THEN IF ReMatch(QuotedRegex("method"), line) # -1
       THEN Processed(None, None, st, SplitQuote1(line))
       ELSE IF line = <<"end_compilation">>
            THEN Processed(None, None, "OutsideBlock", last)
            ELSE Processed(None, None, st, last)
  ELSE IF line = <<"begin_cfg">>
       THEN IF last = None
            THEN ProcessRaise("PassWithoutMethod", st, last)
            ELSE Processed(None, None, "StartingCfgBlock", last)
       ELSE IF line = <<"begin_compilation">>
            THEN Processed(None, None, "InsideCompilationBlock", last)
            ELSE Processed(None, None, st, last)

\* OutputFile._processLine
OutputProcessLine(line, st, last) ==
  IF st = "StartingCfgBlock"
  THEN IF ReMatch(QuotedRegex("name"), line) # -1
       THEN Processed(None, Some(last \o <<" ">> \o SplitQuote1(line)),
                      "InsideCfgBlock", last)
       ELSE ProcessRaise("ExpectedGroupName", st, last)
  ELSE IF st = "InsideCfgBlock"
  THEN IF line = <<"end_cfg">>
       THEN Processed(None, None, "OutsideBlock", last)
       ELSE Processed(Some(line), None, st, last)
  ELSE IF st = "InsideCompilationBlock"
  THEN IF ReMatch(QuotedRegex("method"), line) # -1
       THEN Processed(None, None, st, SplitQuote1(line))
       ELSE IF line = <<"end_compilation">>
            THEN Processed(None, None, "OutsideBlock", last)
            ELSE Processed(None, None, st, last)
  ELSE IF line = <<"begin_cfg">>
       THEN IF last = None
            THEN ProcessRaise("PassWithoutMethod", st, last)
            ELSE Processed(None, None, "StartingCfgBlock", last)
       ELSE IF line = <<"begin_compilation">>
            THEN Processed(None, None, "InsideCompilationBlock", last)
            ELSE ProcessRaise("LineOutsideGroup", st, last)

\* A variant of lines 423-427 of _parseStream that puts the processed line at
\* the front of the lines of the current group.
StoreProcessedAtFront(r, groupsNow, current) ==
  LET opened == IF r.group # None
                THEN Append(groupsNow, [name |-> r.group[1], lines |-> <<>>])
                ELSE groupsNow
      cur == IF r.group # None THEN Len(opened) ELSE current
  IN  IF r.line = None
      THEN [err |-> "", allGroups |-> opened, currentGroup |-> cur]
      ELSE IF cur = 0
           THEN [err |-> "TypeError", allGroups |-> opened, currentGroup |-> cur]
           ELSE [err |-> "",
                 allGroups |-> [opened EXCEPT ![cur].lines = <<r.line[1]>> \o @],
                 currentGroup |-> cur]

\* A variant of lines 423-427 of _parseStream that drops a processed line
\* when there is no current group.
StoreProcessedDropOrphan(r, groupsNow, current) ==
  LET opened == IF r.group # None
                THEN Append(groupsNow, [name |-> r.group[1], lines |-> <<>>])
                ELSE groupsNow
      cur == IF r.group # None THEN Len(opened) ELSE current
  IN  IF r.line = None \/ cur = 0
      THEN [err |-> "", allGroups |-> opened, currentGroup |-> cur]
      ELSE [err |-> "",
            allGroups |-> [opened EXCEPT ![cur].lines = Append(@, r.line[1])],
            currentGroup |-> cur]

\* FileSplitMixin._parseStream, lines 423-427: a new group is opened and made
\* the current one, and the processed line is appended to the current group.
\* Subscripting currentGroup when it is None raises TypeError.
StoreProcessed(r, groupsNow, current) ==
  LET opened == IF r.group # None
                THEN Append(groupsNow, [name |-> r.group[1], lines |-> <<>>])
                ELSE groupsNow
      cur == IF r.group # None THEN Len(opened) ELSE current
  IN  IF r.line = None
      THEN [err |-> "", allGroups |-> opened, currentGroup |-> cur]
      ELSE IF cur = 0
           THEN [err |-> "TypeError", allGroups |-> opened, currentGroup |-> cur]
           ELSE [err |-> "",
                 allGroups |-> [opened EXCEPT ![cur].lines = Append(@, r.line[1])],
                 currentGroup |-> cur]

\* The first group whose construction raises, 0 if none does.
FirstRaising(errs) ==
  IF \A i \in 1..Len(errs) : errs[i] = "" THEN 0
  ELSE Min({i \in 1..Len(errs) : errs[i] # ""})

\* A variant of OutputFile._processGroup that builds a group with no line.
OutputProcessGroupAnyBody(name, lines) ==
  IF name = <<>> THEN [err |-> "NoName", group |-> NoOutputGroup]
  ELSE [err |-> "", group |-> [name |-> name, body |-> lines]]

\* OutputFile._processGroup: OutputGroup(name, lines), or the exception.
OutputProcessGroup(name, lines) ==
  IF name = <<>> THEN [err |-> "NoName", group |-> NoOutputGroup]
  ELSE IF lines = <<>> THEN [err |-> "NoBody", group |-> NoOutputGroup]
  ELSE [err |-> "", group |-> [name |-> name, body |-> lines]]

\* OutputFile.__init__ -> _parseStream, lines 413-427: one iteration of the
\* loop over the lines of the stream.
OutputParseLine ==
  /\ pc = "parseOutput"
  /\ lineNo < Len(stream)
  /\ lineNo' = lineNo + 1
  /\ readIn' = Append(readIn, state)
  /\ \E line \in {Strip(stream[lineNo + 1])} :
       IF line = <<>>
       THEN UNCHANGED <<allGroups, currentGroup, state, lastMethodName, pc,
                        parseError>>
       ELSE \E r \in {OutputProcessLine(line, state, lastMethodName)} :
            \E st \in {StoreProcessed(r, allGroups, currentGroup)} :
              /\ state' = r.state
              /\ lastMethodName' = r.lastMethodName
              /\ IF r.err # ""
                 THEN /\ pc' = "parseFailed"
                      /\ parseError' = r.err
                      /\ UNCHANGED <<allGroups, currentGroup>>
                 ELSE /\ allGroups' = st.allGroups
                      /\ currentGroup' = st.currentGroup
                      /\ pc' = IF st.err # "" THEN "parseFailed" ELSE pc
                      /\ parseError' = st.err
  /\ UNCHANGED <<callVars, groups, outputGroups, stream, gi, checkGroup, outputGroup,
                 matchVars, failure, log>>

\* A variant of the end of the parsing that raises when the stream ends
\* inside a block.
OutputParseEndClosedOnly ==
  /\ pc = "parseOutput"
  /\ lineNo = Len(stream)
  /\ \E made \in {[i \in 1..Len(allGroups) |->
                     OutputProcessGroup(allGroups[i].name, allGroups[i].lines)]} :
     \E bad \in {FirstRaising([i \in 1..Len(made) |-> made[i].err])} :
       IF state # "OutsideBlock"
       THEN /\ pc' = "parseFailed"
            /\ parseError' = "UnclosedBlock"
            /\ UNCHANGED outputGroups
       ELSE IF bad # 0
       THEN /\ pc' = "parseFailed"
            /\ parseError' = made[bad].err
            /\ UNCHANGED outputGroups
       ELSE /\ pc' = "parsed"
            /\ parseError' = ""
            /\ outputGroups' = [i \in 1..Len(made) |-> made[i].group]
  /\ UNCHANGED <<callVars, groups, stream, lineNo, allGroups, currentGroup, state,
                 lastMethodName, readIn, gi, checkGroup, outputGroup, matchVars,
                 failure, log>>

\* OutputFile.__init__ -> _parseStream, line 431: the stream is read, every
\* group is processed in order and the list is stored in self.groups.
OutputParseEnd ==
  /\ pc = "parseOutput"
  /\ lineNo = Len(stream)
  /\ \E made \in {[i \in 1..Len(allGroups) |->
                     OutputProcessGroup(allGroups[i].name, allGroups[i].lines)]} :
     \E bad \in {FirstRaising([i \in 1..Len(made) |-> made[i].err])} :
       IF bad # 0
       THEN /\ pc' = "parseFailed"
            /\ parseError' = made[bad].err
            /\ UNCHANGED outputGroups
       ELSE /\ pc' = "parsed"
            /\ parseError' = ""
            /\ outputGroups' = [i \in 1..Len(made) |-> made[i].group]
  /\ UNCHANGED <<callVars, groups, stream, lineNo, allGroups, currentGroup, state,
                 lastMethodName, readIn, gi, checkGroup, outputGroup, matchVars,
                 failure, log>>

\* The lines of an output file.
BeginCompilation == <<"begin_compilation">>
EndCompilation == <<"end_compilation">>
BeginCfg == <<"begin_cfg">>
EndCfg == <<" ", "end_cfg">>
MethodM1 == <<"method", " ", Quote, "m1", Quote>>
MethodM2 == <<" ", "method", " ", " ", Quote, "m2", Quote, " ">>
NameP1 == <<"name", " ", Quote, "p1", Quote>>
NameP2 == <<" ", "name", " ", Quote, "p2", Quote, " ", "x">>
LineV1 == <<" ", "v", "1">>
LineV2 == <<"v", "2", " ">>
Blank == <<" ">>

\* The blocks of lines an output file is made of: compilation blocks with
\* one method, two methods or none and one with no end, cfg blocks (complete,
\* with blank lines, with no line, with no name, with keywords inside and no
\* end), a stray line and a blank line.
OutputBlockSet ==
  { <<BeginCompilation, MethodM1, EndCompilation>>,
    <<BeginCompilation, MethodM1>>,
    <<BeginCompilation, MethodM1, MethodM2, EndCompilation>>,
    <<BeginCompilation, LineV1, NameP1, EndCompilation>>,
    <<BeginCfg, NameP1, LineV1, LineV2, EndCfg>>,
    <<BeginCfg, Blank, NameP2, LineV2, Blank, LineV1, EndCfg>>,
    <<BeginCfg, NameP1, EndCfg>>,
    <<BeginCfg, LineV1>>,
    <<BeginCfg, NameP2, MethodM2, BeginCfg, LineV1>>,
    <<BeginCompilation, MethodM2, EndCompilation, BeginCfg, NameP1, LineV1, EndCfg>>,
    <<LineV1>>,
    <<Blank>> }

\* The concatenations of up to n blocks.
RECURSIVE Concat(_)
Concat(seqs) == IF seqs = <<>> THEN <<>> ELSE Head(seqs) \o Concat(Tail(seqs))
StreamsOf(blocks, n) == {Concat(bs) : bs \in SeqsFromZero(blocks, n)}

\* Nothing is being matched; the file of the stream is about to be parsed.
InitParse(streams, start) ==
  /\ stream \in streams
  /\ lineNo = 0
  /\ allGroups = <<>>
  /\ currentGroup = 0
  /\ state = "OutsideBlock"
  /\ lastMethodName = None
  /\ parseError = ""
  /\ readIn = <<>>
  /\ groups = <<>>
  /\ outputGroups = <<>>
  /\ gi = 0
  /\ checkGroup = NoGroup
  /\ outputGroup = NoOutputGroup
  /\ varState = EmptyDict
  /\ checkLines = <<>>
  /\ outputLines = <<>>
  /\ notChecks = <<>>
  /\ independentChecks = <<>>
  /\ notOutput = <<>>
  /\ newVarState = EmptyDict
  /\ pc = start
  /\ failure = NoFailure
  /\ hist = <<>>
  /\ log = <<>>
  /\ CallIdle

InitOutput == InitParse(StreamsOf(OutputBlockSet, MaxBlocks), "parseOutput")

NextOutput ==
  \/ OutputParseLine
  \/ OutputParseEnd

SpecOutput == InitOutput /\ [][NextOutput]_vars

\* The comment symbols and the prefix of the check lines.
CommentSymbols == {"//", "#"}
Prefix == <<"CHECK">>

\* CheckFile._extractLine: the text after  <comment symbol> prefix:  at the
\* beginning of the line, stripped, or None.
ExtractLine(prefix, line) ==
  LET prefixRegex == <<Atom(Whitespace, "*"), Atom(CommentSymbols, "1"),
                       Atom(Whitespace, "*")>> \o ReEscape(prefix) \o
                     <<Atom({":"}, "1")>>
      end == ReMatch(prefixRegex, line)
  IN  IF end # -1 THEN Some(Strip(SliceFrom(line, end))) ELSE None

\* CheckFile._processLine
CheckProcessLine(line) ==
  LET startLine == ExtractLine(Prefix \o <<"-START">>, line)
      plainLine == ExtractLine(Prefix, line)
      dagLine == ExtractLine(Prefix \o <<"-DAG">>, line)
      notLine == ExtractLine(Prefix \o <<"-NOT">>, line)
  IN  IF startLine # None
      THEN Processed(None, Some(startLine[1]), "OutsideBlock", None)
      ELSE IF plainLine # None
      THEN Processed(Some(<<plainLine[1], "InOrder">>), None, "OutsideBlock", None)
      ELSE IF dagLine # None
      THEN Processed(Some(<<dagLine[1], "DAG">>), None, "OutsideBlock", None)
      ELSE IF notLine # None
      THEN Processed(Some(<<notLine[1], "Not">>), None, "OutsideBlock", None)
      ELSE Processed(None, None, "OutsideBlock", None)

\* CheckLine.__parse on a content written as a sequence of elements with no
\* whitespace between them:  [[X]],  [[X:[0-9]+]]  or plain text.
ParseContent(content) ==
  [i \in 1..Len(content) |->
     IF content[i] = "[[X]]" THEN VarRef("X")
     ELSE IF content[i] = "[[X:[0-9]+]]" THEN VarDef("X", DigitsPlus)
     ELSE ParseText(<<content[i]>>)]

\* CheckLine.__init__: the check line, or the exception.
NewCheckLine(content, variant, no) ==
  LET lineParts == ParseContent(Strip(content))
  IN  IF variant = "Not" /\ HasVarDef(lineParts)
      THEN [err |-> "NotDefinesVariable", line |-> CheckLine(<<>>, variant, no)]
      ELSE IF lineParts = <<>>
           THEN [err |-> "EmptyCheckLine", line |-> CheckLine(<<>>, variant, no)]
           ELSE [err |-> "", line |-> CheckLine(lineParts, variant, no)]

\* CheckFile._processGroup: the check lines are built without a line number,
\* which is then the default -1, and CheckGroup.__init__ rejects an empty name
\* and an empty list of lines.
CheckProcessGroup(name, lines) ==
  LET made == [i \in 1..Len(lines) |-> NewCheckLine(lines[i][1], lines[i][2], -1)]
      bad == FirstRaising([i \in 1..Len(lines) |-> made[i].err])
  IN  IF bad # 0 THEN [err |-> made[bad].err, group |-> NoGroup]
      ELSE IF name = <<>> THEN [err |-> "NoName", group |-> NoGroup]
      ELSE IF lines = <<>> THEN [err |-> "NoBody", group |-> NoGroup]
      ELSE [err |-> "",
            group |-> [name |-> name, lines |-> [i \in 1..Len(lines) |-> made[i].line]]]

\* CheckFile.__init__ -> _parseStream, lines 413-427: one iteration of the
\* loop over the lines of the stream.
CheckParseLine ==
  /\ pc = "parseCheck"
  /\ lineNo < Len(stream)
  /\ lineNo' = lineNo + 1
  /\ readIn' = Append(readIn, state)
  /\ \E line \in {Strip(stream[lineNo + 1])} :
       IF line = <<>>
       THEN UNCHANGED <<allGroups, currentGroup, pc, parseError>>
       ELSE \E st \in {StoreProcessed(CheckProcessLine(line), allGroups, currentGroup)} :
              /\ allGroups' = st.allGroups
              /\ currentGroup' = st.currentGroup
              /\ pc' = IF st.err # "" THEN "parseFailed" ELSE pc
              /\ parseError' = st.err
  /\ UNCHANGED <<callVars, groups, outputGroups, stream, state, lastMethodName, gi,
                 checkGroup, outputGroup, matchVars, failure, log>>

\* CheckFile.__init__ -> _parseStream, line 431: the stream is read, every
\* group is processed in order and the list is stored in self.groups.
CheckParseEnd ==
  /\ pc = "parseCheck"
  /\ lineNo = Len(stream)
  /\ \E made \in {[i \in 1..Len(allGroups) |->
                     CheckProcessGroup(allGroups[i].name, allGroups[i].lines)]} :
     \E bad \in {FirstRaising([i \in 1..Len(made) |-> made[i].err])} :
       IF bad # 0
       THEN /\ pc' = "parseFailed"
            /\ parseError' = made[bad].err
            /\ UNCHANGED groups
       ELSE /\ pc' = "parsed"
            /\ parseError' = ""
            /\ groups' = [i \in 1..Len(made) |-> made[i].group]
  /\ UNCHANGED <<callVars, outputGroups, stream, lineNo, allGroups, currentGroup, state,
                 lastMethodName, readIn, gi, checkGroup, outputGroup, matchVars,
                 failure, log>>

\* The lines of a check file.
StartG1 == <<"//", " ", "CHECK", "-START", ":", " ", "g1">>
StartG2 == <<" ", "#", "CHECK", "-START", ":", "g2", " ">>
StartNoName == <<"//", " ", "CHECK", "-START", ":">>
Check1 == <<"//", " ", "CHECK", ":", " ", "1">>
CheckDagDef == <<" ", "//", " ", " ", "CHECK", "-DAG", ":", " ", "[[X:[0-9]+]]">>
CheckNotRef == <<"#", " ", "CHECK", "-NOT", ":", " ", "[[X]]", " ">>
CheckNotDef == <<"//", "CHECK", "-NOT", ":", "[[X:[0-9]+]]">>
CheckEmpty == <<"//", " ", "CHECK", ":", " ">>
Code == <<"int", " ", "x", ";">>
CodeThenCheck == <<"x", " ", "//", " ", "CHECK", ":", " ", "1">>
CheckOther == <<"//", " ", "CHECK", "-FOO", ":", " ", "1">>
CheckNoComment == <<"CHECK", ":", " ", "1">>

\* The blocks of lines a check file is made of.
CheckBlockSet ==
  { <<StartG1>>, <<StartG2>>, <<StartNoName>>, <<Check1>>, <<CheckDagDef>>,
    <<CheckNotRef>>, <<CheckNotDef>>, <<CheckEmpty>>, <<Code>>, <<CodeThenCheck>>,
    <<CheckOther, Blank, CheckNoComment>>,
    <<StartG1, Code, Check1, CheckOther, CheckDagDef>>,
    <<StartG2, CheckNotRef, Blank, Check1>> }

InitCheck == InitParse(StreamsOf(CheckBlockSet, MaxBlocks), "parseCheck")

NextCheck ==
  \/ CheckParseLine
  \/ CheckParseEnd

SpecCheck == InitCheck /\ [][NextCheck]_vars

\* ------------------------------------------------------------- properties

\* The body of the output group being matched.
Body == outputGroup.body

\* The check line matches the output line under the variable state.
LineMatches(checkLine, outputLine, vs) == Match(checkLine, outputLine, vs).res = "match"

\* The latest position consumed by the span before span k (0 at the group
\* start), and the earliest position consumed by span k.
PrevMax(k) == IF k = 1 THEN 0 ELSE Max(Numbers(hist[k - 1].matched))
SpanMin(k) == Min(Numbers(hist[k].matched))

\* The positions strictly between the previous span and span k.
WindowBefore(k) == {p \in 1..Len(Body) : PrevMax(k) < p /\ p < SpanMin(k)}

\* C1: the Not lines that precede an independent span are run on exactly the
\* output lines strictly after the latest line consumed by the previous span
\* (or the group start) and strictly before the earliest line consumed by this
\* span; if the Not check passes, no Not line matches a line of that window,
\* and a failure of the Not check is raised on a line of that window.
C1_NegativeWindow ==
  \A k \in 1..Len(hist) :
    hist[k].independentChecks # <<>> =>
      /\ hist[k].window = WindowBefore(k)
      /\ k = Len(hist) =>
           notOutput = [i \in 1..Cardinality(WindowBefore(k)) |-> Body[PrevMax(k) + i]]
      /\ hist[k].notErr = "" =>
           \A i \in 1..Len(hist[k].notChecks) : \A p \in WindowBefore(k) :
             ~LineMatches(hist[k].notChecks[i], Body[p], hist[k].varsIn)
      /\ hist[k].notErr # "" =>
           /\ pc = "raised"
           /\ failure.in = "matchNotLines"
           /\ failure.at \in WindowBefore(k)

\* C1 witness: a group has succeeded although a Not line between two matched
\* spans matches an output line outside its (non-empty) window.
C1_Witness ==
  /\ pc = "returned"
  /\ \E k \in 2..Len(hist) :
       /\ hist[k].independentChecks # <<>>
       /\ WindowBefore(k) # {}
       /\ \E i \in 1..Len(hist[k].notChecks) : \E p \in 1..Len(Body) :
            /\ p \notin WindowBefore(k)
            /\ LineMatches(hist[k].notChecks[i], Body[p], hist[k].varsIn)

\* C2: the Not check of a span (of one or more Not lines) fails if and only
\* if one of its Not lines, evaluated under the variable state the span was
\* given, matches a line of the window (or refers to a variable that state does
\* not bind); a span in which no line matches passes.
C2_NotSpanFailsIffSomeLineMatches ==
  \A k \in 1..Len(hist) :
    (hist[k].notErr # "") <=>
      \E i \in 1..Len(hist[k].notChecks) : \E p \in hist[k].window :
        Match(hist[k].notChecks[i], Body[p], hist[k].varsIn).res \in {"match", "error"}

\* The check group is a (possibly empty) run of InOrder lines followed by
\* exactly two DAG lines.
EndsWithDagPair(lines) ==
  /\ Len(lines) >= 2
  /\ lines[Len(lines) - 1].variant = "DAG"
  /\ lines[Len(lines)].variant = "DAG"
  /\ \A i \in 1..(Len(lines) - 2) : lines[i].variant = "InOrder"

\* In the lines after position lo, a line that matches only l2 comes before a
\* line that matches only l1, under the variable state vs.
SwappedPair(l1, l2, lo, vs) ==
  \E i \in (lo + 1)..Len(Body) : \E j \in (i + 1)..Len(Body) :
    /\ LineMatches(l2, Body[i], vs) /\ ~LineMatches(l1, Body[i], vs)
    /\ LineMatches(l1, Body[j], vs) /\ ~LineMatches(l2, Body[j], vs)

\* C3: when the group ends with two consecutive DAG lines L1, L2 (after InOrder
\* lines that have all been matched) and, in the lines after the previous
\* span's match, a line matching only L2 comes before a line matching only L1
\* (under the variable state carried into the span), the match does not fail:
\* both lines are matched, at positions after every position matched before,
\* and the group succeeds.
C3_UnorderedCommutativity ==
  LET lines == checkGroup.lines
      n == Len(lines)
  IN  (/\ pc \in {"loop", "raised", "returned"}
       /\ EndsWithDagPair(lines)
       /\ Len(hist) >= n - 2
       /\ SwappedPair(lines[n - 1], lines[n], PrevMax(n - 1),
                      IF n = 2 THEN EmptyDict ELSE hist[n - 2].varsOut))
      => /\ pc # "raised"
         /\ pc = "returned" => Len(hist) = n - 1
         /\ Len(hist) = n - 1 =>
              /\ hist[n - 1].independentChecks = <<lines[n - 1], lines[n]>>
              /\ \A k \in 1..(n - 2) : \A q \in Numbers(hist[k].matched) :
                   \A r \in Numbers(hist[n - 1].matched) : q < r

\* C3 witness: a group of an InOrder line and two DAG lines has succeeded with
\* the second DAG line matched on an earlier output line than the first.
C3_Witness ==
  /\ pc = "returned"
  /\ EndsWithDagPair(checkGroup.lines)
  /\ Len(checkGroup.lines) = 3
  /\ Len(hist) = 2
  /\ SwappedPair(checkGroup.lines[2], checkGroup.lines[3], PrevMax(2), hist[1].varsOut)
  /\ hist[2].matched[2] < hist[2].matched[1]

\* The check group is exactly two InOrder lines.
TwoInOrder(lines) ==
  /\ Len(lines) = 2
  /\ lines[1].variant = "InOrder"
  /\ lines[2].variant = "InOrder"

\* The position of the first line of the body that matches the check line
\* under vs, or 0.
FirstMatching(checkLine, vs) ==
  LET found == {j \in 1..Len(Body) : LineMatches(checkLine, Body[j], vs)}
  IN  IF found = {} THEN 0 ELSE Min(found)

\* C4 as stated: a group of two InOrder lines L1, L2 fails on every body that
\* has a line matching L2 before any line matching L1.
C4_FailsWhenSomeL2LineComesFirst ==
  (/\ TwoInOrder(checkGroup.lines)
   /\ \E i \in 1..Len(Body) :
        /\ LineMatches(checkGroup.lines[2], Body[i], EmptyDict)
        /\ \A j \in 1..Len(Body) :
             LineMatches(checkGroup.lines[1], Body[j], EmptyDict) => i < j)
  => pc # "returned"

\* C4, amended: a group of two InOrder lines L1, L2 succeeds only if some line
\* after the first line matching L1 matches L2 (under the variable state left
\* by L1); so it fails whenever every line matching L2 comes before the first
\* line matching L1.
C4_InOrderStrictness ==
  (TwoInOrder(checkGroup.lines) /\ pc = "returned") =>
    LET f == FirstMatching(checkGroup.lines[1], EmptyDict)
    IN  /\ f > 0
        /\ \E j \in (f + 1)..Len(Body) :
             LineMatches(checkGroup.lines[2], Body[j],
                         Match(checkGroup.lines[1], Body[f], EmptyDict).vars)
        /\ hist[1].matched = <<f>>
        /\ hist[2].matched[1] > f

\* C4 witness: a group of two InOrder lines has failed on its second line, on
\* a body in which lines matching L2 come only before the first line matching
\* L1.
C4_Witness ==
  /\ pc = "raised"
  /\ TwoInOrder(checkGroup.lines)
  /\ failure.kind = "CouldNotMatch"
  /\ failure.line = checkGroup.lines[2]
  /\ \E i \in 1..Len(Body) :
       /\ i < FirstMatching(checkGroup.lines[1], EmptyDict)
       /\ LineMatches(checkGroup.lines[2], Body[i], EmptyDict)

\* The text v occurs in the line.
Contains(line, v) ==
  \E st \in 0..(Len(line) - Len(v)) : SubSeq(line, st + 1, st + Len(v)) = v

\* The leftmost maximal run of digits of a line that has a digit.
LeftmostDigitRun(line) ==
  LET first == Min({i \in 1..Len(line) : line[i] \in Digits})
      last == Max({j \in first..Len(line) : \A i \in first..j : line[i] \in Digits})
  IN  SubSeq(line, first, last)

HasDigit(line) == \E i \in 1..Len(line) : line[i] \in Digits

\* The check line is [[name:[0-9]+]], or [[name]].
IsDigitsDef(checkLine) ==
  /\ Len(checkLine.lineParts) = 1
  /\ checkLine.lineParts[1].variant = "VarDef"
  /\ checkLine.lineParts[1].pattern = <<Atom(Digits, "+")>>
IsRef(checkLine) ==
  /\ Len(checkLine.lineParts) = 1
  /\ checkLine.lineParts[1].variant = "VarRef"

\* The positions the lines before line i of span k have consumed.
ConsumedBefore(k, i) == {hist[k].matched[j] : j \in 1..(i - 1)}

\* C5, amended: a matched definition [[X:[0-9]+]] binds X to exactly the
\* digits it consumed on its output line, and a matched reference [[X]] sits
\* on the first available line of its window in which the bound value occurs
\* verbatim: every available line before it lacks that text, whatever digits
\* it carries.
C5_VariableRoundtrip ==
  \A k \in 1..Len(hist) : \A i \in 1..Len(hist[k].independentChecks) :
    LET l == hist[k].independentChecks[i]
        name == l.lineParts[1].name
        p == hist[k].matched[i]
        out == hist[k].varsOut
    IN  /\ IsDigitsDef(l) =>
             /\ out.kind = "dict"
             /\ name \in DOMAIN out.map
             /\ out.map[name] = LeftmostDigitRun(Body[p])
        /\ IsRef(l) =>
             /\ out.kind = "dict"
             /\ name \in DOMAIN out.map
             /\ Contains(Body[p], out.map[name])
             /\ \A q \in (hist[k].lo + 1)..(p - 1) :
                  q \notin ConsumedBefore(k, i) => ~Contains(Body[q], out.map[name])

\* C5 as stated: a matched reference [[X]] sits on a line whose own value (the
\* digits a definition [[X:[0-9]+]] would capture there) is the bound value; a
\* line that carries a different value does not satisfy the reference.
C5_ReferenceRejectsOtherValues ==
  \A k \in 1..Len(hist) : \A i \in 1..Len(hist[k].independentChecks) :
    IsRef(hist[k].independentChecks[i]) =>
      LeftmostDigitRun(Body[hist[k].matched[i]]) =
        hist[k].varsOut.map[hist[k].independentChecks[i].lineParts[1].name]

\* C5 witness: a group has succeeded in which a reference, bound by a
\* definition of an earlier span, skipped an available line that carries other
\* digits.
C5_Witness ==
  /\ pc = "returned"
  /\ \E k \in 2..Len(hist) : \E i \in 1..Len(hist[k].independentChecks) :
       /\ IsRef(hist[k].independentChecks[i])
       /\ \E j \in 1..(k - 1) : \E d \in 1..Len(hist[j].independentChecks) :
            IsDigitsDef(hist[j].independentChecks[d])
       /\ \E q \in (hist[k].lo + 1)..(hist[k].matched[i] - 1) :
            /\ q \notin ConsumedBefore(k, i)
            /\ HasDigit(Body[q])
            /\ ~Contains(Body[q], hist[k].varsOut.map["X"])

\* Line i of the lines has a reference to a variable that neither an earlier
\* line nor an earlier element of line i defines.
RefersUndefined(lines, i) ==
  \E e \in 1..Len(lines[i].lineParts) :
    /\ lines[i].lineParts[e].variant = "VarRef"
    /\ ~\E j \in 1..i : \E d \in 1..Len(lines[j].lineParts) :
          /\ j < i \/ d < e
          /\ lines[j].lineParts[d].variant = "VarDef"
          /\ lines[j].lineParts[d].name = lines[i].lineParts[e].name

\* C6: a check line of any variant that refers to an unbound variable makes
\* the match fail with the undefined-variable error, so no group that uses a
\* variable undefined ever succeeds.
C6_NoSuccessWithUndefinedVariable ==
  pc = "returned" =>
    \A i \in 1..Len(checkGroup.lines) : ~RefersUndefined(checkGroup.lines, i)

\* The variable table extended: every binding of a is a binding of b.
Extends(b, a) ==
  /\ a.kind = "dict"
  /\ b.kind = "dict"
  /\ \A n \in DOMAIN a.map : n \in DOMAIN b.map /\ b.map[n] = a.map[n]

\* The lines of the group that define the variable name.
Definers(lines, name) ==
  {i \in 1..Len(lines) :
     \E e \in 1..Len(lines[i].lineParts) :
        /\ lines[i].lineParts[e].variant = "VarDef"
        /\ lines[i].lineParts[e].name = name}

\* C7: within one run the table that the check lines are matched with only
\* grows, a bound name keeps its value from one span to the next, no group in
\* which two lines define the same name ends in success, and the
\* redefinition error is raised by a defining line of a name defined before.
C7_NoRedefinition ==
  /\ \A k \in 1..Len(hist) :
       /\ hist[k].varsIn.kind = "dict"
       /\ hist[k].independentChecks # <<>> => Extends(hist[k].varsOut, hist[k].varsIn)
       /\ k < Len(hist) => hist[k + 1].varsIn = hist[k].varsOut
  /\ (pc = "loop" /\ hist # <<>> /\ checkLines # <<>>) =>
        varState = hist[Len(hist)].varsOut
  /\ pc = "returned" =>
        Cardinality(Definers(checkGroup.lines, "X")) <= 1
  /\ (pc = "raised" /\ failure.kind = "Redefinition") =>
        /\ HasVarDef(failure.line.lineParts)
        /\ Cardinality(Definers(checkGroup.lines, "X")) >= 2

\* A second definition of X was reached with X bound, and the run was ended.
C7_Witness ==
  /\ pc = "raised"
  /\ failure.kind = "Redefinition"
  /\ Len(hist) >= 1
  /\ "X" \in DOMAIN hist[Len(hist)].varsOut.map

\* C8: the matching of every group starts with the empty variable table, so
\* a positive line that refers to a variable defined only in another group of
\* the file refers to an unbound variable, and its group never succeeds.
C8_TableScopedToGroup ==
  /\ (pc = "loop" /\ hist = <<>>) => varState = EmptyDict
  /\ hist # <<>> => hist[1].varsIn = EmptyDict
  /\ pc = "returned" =>
        \A i \in 1..Len(checkGroup.lines) :
           checkGroup.lines[i].variant # "Not" => ~RefersUndefined(checkGroup.lines, i)

\* The first group bound X and succeeded; the second group refers to X and
\* fails with the undefined-variable error.
C8_Witness ==
  /\ gi = 2
  /\ Definers(groups[1].lines, "X") # {}
  /\ pc = "raised"
  /\ failure.kind = "UndefinedVariable"

\* The positions of the body consumed by the positive lines matched so far.
Consumed == UNION {Numbers(hist[k].matched) : k \in 1..Len(hist)}

\* Span k is a trailing span: Not lines with no independent line after them.
Trailing(k) == hist[k].independentChecks = <<>> /\ hist[k].notChecks # <<>>

\* Some Not line of span k matches some output line at a position of ps.
NotLineMatchesIn(k, ps) ==
  \E i \in 1..Len(hist[k].notChecks) : \E p \in ps :
    LineMatches(hist[k].notChecks[i], Body[p], hist[k].varsIn)

\* C9: the group fails if any output line that no positive check line has
\* consumed matches a Not line of the trailing span.
C9_TrailingNotSeesAllUnconsumed ==
  \A k \in 1..Len(hist) :
    (Trailing(k) /\ NotLineMatchesIn(k, (1..Len(Body)) \ Consumed)) =>
       hist[k].notErr # ""

\* The positions after the latest line consumed by the span before span k.
WindowAfter(k) == {p \in 1..Len(Body) : PrevMax(k) < p}

\* C9, amended: a trailing span is run on exactly the output lines after the
\* latest line consumed by the last independent span (all lines of the group
\* if it has no independent line); the group fails if one of these lines
\* matches one of its Not lines, and a line skipped before that position is
\* not looked at.
C9_TrailingNotWindow ==
  \A k \in 1..Len(hist) :
    Trailing(k) =>
      /\ k = Len(hist)
      /\ checkLines = <<>>
      /\ hist[k].window = WindowAfter(k)
      /\ notOutput = [i \in 1..Cardinality(WindowAfter(k)) |-> Body[PrevMax(k) + i]]
      /\ NotLineMatchesIn(k, WindowAfter(k)) =>
           /\ hist[k].notErr # ""
           /\ pc = "raised"
           /\ failure.in = "matchNotLines"
           /\ failure.at \in WindowAfter(k)
      /\ hist[k].notErr = "NotLineMatches" =>
           LineMatches(failure.line, Body[failure.at], hist[k].varsIn)

\* A trailing span after an independent span has failed on a line that
\* follows the consumed lines, and an unconsumed line was skipped before them.
C9_Witness ==
  /\ pc = "raised"
  /\ Len(hist) >= 2
  /\ Trailing(Len(hist))
  /\ hist[Len(hist)].notErr = "NotLineMatches"
  /\ failure.at > PrevMax(Len(hist))
  /\ 1 \notin Consumed

\* The events of the log of the given kind, and the groups they are for.
EventsOf(ev) == {i \in 1..Len(log) : log[i].ev = ev}
GroupsOf(ev) == {log[i].group : i \in EventsOf(ev)}

\* C10: the check groups are looked up and matched in the order of the file,
\* each at most once; at most one failure is raised, and it ends the run: no
\* group after the failing one is looked up or matched; the run is over with
\* every group matched successfully or with exactly one failure.
C10_InOrderStopAtFirstFailure ==
  /\ \A i, j \in 1..Len(log) : i < j => log[i].group <= log[j].group
  /\ \A i, j \in 1..Len(log) : (i # j /\ log[i].ev = log[j].ev) =>
        log[i].group # log[j].group
  /\ GroupsOf("find") = 1..gi
  /\ GroupsOf("match") \subseteq 1..gi
  /\ 1..(gi - 1) \subseteq GroupsOf("match")
  /\ Cardinality(EventsOf("raise")) <= 1
  /\ EventsOf("raise") # {} <=> pc = "raised"
  /\ pc = "raised" => log[Len(log)] = Event("raise", gi)
  /\ pc = "done" =>
        /\ gi = Len(groups)
        /\ GroupsOf("match") = 1..Len(groups)
        /\ failure = NoFailure

\* The first of two check groups has failed, and the second is left alone.
C10_Witness ==
  /\ pc = "raised"
  /\ Len(groups) = 2
  /\ gi = 1
  /\ failure.kind # "GroupNotFound"

\* The output groups whose name is the name of the check group of the loop.
SameName == {i \in 1..Len(outputGroups) : outputGroups[i].name = groups[gi].name}

\* C11: the check group of the loop is matched against the first output group
\* of its own name, also when a later group has that name too, and to no group
\* of another name; when no output group has its name the run ends with the
\* lookup error and the check group is not matched.
C11_LookupByExactName ==
  gi >= 1 =>
    /\ SameName # {} =>
         /\ outputGroup = outputGroups[Min(SameName)]
         /\ \A i \in SameName : i >= Min(SameName)
         /\ failure.kind # "GroupNotFound"
    /\ SameName = {} =>
         /\ outputGroup = NoOutputGroup
         /\ pc = "raised"
         /\ failure.kind = "GroupNotFound"
         /\ gi \notin GroupsOf("match")

\* Two output groups of the name of the check group have different bodies,
\* and the check group has been matched against the first of them.
C11_Witness ==
  /\ gi >= 1
  /\ Cardinality(SameName) = 2
  /\ outputGroups[1].body # outputGroups[2].body
  /\ outputGroup = outputGroups[1]
  /\ pc = "returned"

\* The line is  keyword "text"  with whitespace between the two, and
\* possibly more after the closing quote; the text between the quotes.
QuotedForm(l, keyword) ==
  \E a, b \in 1..Len(l) :
    /\ l[1] = keyword
    /\ a >= 3
    /\ \A j \in 2..(a - 1) : l[j] \in Whitespace
    /\ l[a] = Quote
    /\ b > a + 1
    /\ l[b] = Quote
    /\ \A j \in (a + 1)..(b - 1) : l[j] # Quote
QuotedText(l) ==
  LET a == Min({i \in 1..Len(l) : l[i] = Quote})
      b == Min({i \in (a + 1)..Len(l) : l[i] = Quote})
  IN  SubSeq(l, a + 1, b - 1)

\* Line k of the stream without the whitespace around it; it is blank if
\* nothing is left.
Stripped(k) ==
  LET l == stream[k]
      inked == {i \in 1..Len(l) : l[i] \notin Whitespace}
  IN  IF inked = {} THEN <<>> ELSE SubSeq(l, Min(inked), Max(inked))

\* The lines read so far, each without the whitespace around it.
LinesRead == [k \in 1..lineNo |-> Stripped(k)]

\* The j-th number of a set of line numbers.
Nth(S, j) == CHOOSE k \in S : Cardinality({n \in S : n <= k}) = j

\* Among the lines read: the name lines accepted after begin_cfg, and the
\* method lines read inside a compilation block.
NameLines(text) ==
  {k \in DOMAIN text : readIn[k] = "StartingCfgBlock" /\ QuotedForm(text[k], "name")}
MethodLines(text) ==
  {k \in DOMAIN text :
     readIn[k] = "InsideCompilationBlock" /\ QuotedForm(text[k], "method")}

\* C12: the groups opened so far are, in order, one per accepted name line,
\* each named by the method name most recently recorded inside a compilation
\* block before the name line, a space and the pass name of the line; the
\* groups of the parsed file have these names in this order.
C12_OneGroupPerNameLine ==
  \E text \in {LinesRead} :
  \E names \in {NameLines(text)} :
  \E methods \in {MethodLines(text)} :
    /\ Len(allGroups) = Cardinality(names)
    /\ \A j \in 1..Len(allGroups) :
         \E n \in {Nth(names, j)} :
           /\ {m \in methods : m < n} # {}
           /\ allGroups[j].name =
                QuotedText(text[Max({m \in methods : m < n})]) \o <<" ">> \o
                QuotedText(text[n])
    /\ pc = "parsed" =>
         /\ Len(outputGroups) = Len(allGroups)
         /\ \A j \in 1..Len(allGroups) : outputGroups[j].name = allGroups[j].name

\* A file of two groups is parsed; two method names were recorded before the
\* name line of the second group, which is named by the second of them.
C12_Witness ==
  /\ pc = "parsed"
  /\ Len(outputGroups) = 2
  /\ outputGroups[1].name # outputGroups[2].name
  /\ outputGroups[2].name[1] = "m2"
  /\ \E m \in MethodLines(LinesRead) :
       m < Nth(NameLines(LinesRead), 2) /\ QuotedText(Stripped(m)) = <<"m1">>

\* C13: the parsing ends with an exception and stores no groups when the line
\* just read is, outside the blocks, a line other than begin_compilation and
\* begin_cfg, or begin_cfg with no method name recorded before it, or is, after
\* begin_cfg, not a name line; nothing is read after the exception.
C13_FatalTranscriptErrors ==
  /\ (lineNo >= 1 /\ Stripped(lineNo) # <<>>) =>
       /\ (/\ readIn[lineNo] = "OutsideBlock"
           /\ Stripped(lineNo) \notin {<<"begin_compilation">>, <<"begin_cfg">>})
             => (pc = "parseFailed" /\ parseError = "LineOutsideGroup")
       /\ (/\ readIn[lineNo] = "OutsideBlock"
           /\ Stripped(lineNo) = <<"begin_cfg">>
           /\ MethodLines(LinesRead) = {})
             => (pc = "parseFailed" /\ parseError = "PassWithoutMethod")
       /\ (/\ readIn[lineNo] = "StartingCfgBlock"
           /\ ~QuotedForm(Stripped(lineNo), "name"))
             => (pc = "parseFailed" /\ parseError = "ExpectedGroupName")
  /\ pc = "parseFailed" => (outputGroups = <<>> /\ ~ENABLED NextOutput)

\* begin_cfg was read after a compilation block that records no method name.
C13_Witness ==
  /\ pc = "parseFailed"
  /\ parseError = "PassWithoutMethod"
  /\ \E k \in 1..lineNo : readIn[k] = "InsideCompilationBlock"
  /\ outputGroups = <<>>

\* The lines of group j: the non-blank lines other than end_cfg read inside a
\* cfg block after the name line of the group and before the next name line.
BodyLines(text, names, j) ==
  {k \in DOMAIN text :
     /\ readIn[k] = "InsideCfgBlock"
     /\ text[k] \notin {<<>>, <<"end_cfg">>}
     /\ k > Nth(names, j)
     /\ j < Cardinality(names) => k < Nth(names, j + 1)}

\* C14: the lines of every group are the lines of the stream read inside its
\* cfg block, verbatim and in input order.
C14_GroupLinesVerbatim ==
  \E text \in {LinesRead} :
  \E names \in {NameLines(text)} :
    \A j \in 1..Len(allGroups) :
      \E body \in {BodyLines(text, names, j)} :
        /\ Len(allGroups[j].lines) = Cardinality(body)
        /\ \A i \in 1..Len(allGroups[j].lines) :
             allGroups[j].lines[i] = stream[Nth(body, i)]

\* C14, amended: the lines of every group are the lines of the stream read
\* inside its cfg block, each without its leading and trailing whitespace, in
\* input order; no other line is in a group, and the groups of the parsed file
\* have these lines.
C14_GroupLinesStripped ==
  \E text \in {LinesRead} :
  \E names \in {NameLines(text)} :
    /\ \A j \in 1..Len(allGroups) :
         \E body \in {BodyLines(text, names, j)} :
           /\ Len(allGroups[j].lines) = Cardinality(body)
           /\ \A i \in 1..Len(allGroups[j].lines) :
                allGroups[j].lines[i] = text[Nth(body, i)]
    /\ pc = "parsed" =>
         \A j \in 1..Len(allGroups) : outputGroups[j].body = allGroups[j].lines

\* A parsed group has two different lines, the first of which has whitespace
\* around it in the stream, and a line of the same text inside a compilation
\* block is in no group.
C14_Witness ==
  /\ pc = "parsed"
  /\ \E j \in 1..Len(outputGroups) :
       /\ Len(outputGroups[j].body) = 2
       /\ outputGroups[j].body[1] # outputGroups[j].body[2]
       /\ stream[Nth(BodyLines(LinesRead, NameLines(LinesRead), j), 1)]
            # outputGroups[j].body[1]
  /\ \E k \in 1..lineNo :
       readIn[k] = "InsideCompilationBlock" /\ Stripped(k) = <<"v", "1">>

\* The token of a line of a check file: "START", "InOrder", "DAG" or "Not" if
\* the line begins with a comment symbol, the prefix, the suffix of the token
\* and a colon, and "" if it has none of the four.
Token(l) ==
  LET words == {i \in 1..Len(l) : l[i] \notin Whitespace}
      second == IF Cardinality(words) >= 2 THEN Min(words \ {1}) ELSE 0
  IN  IF l = <<>> \/ second = 0 \/ l[1] \notin CommentSymbols \/ l[second] # "CHECK"
         \/ Len(l) < second + 1
      THEN ""
      ELSE IF l[second + 1] = ":" THEN "InOrder"
      ELSE IF Len(l) < second + 2 \/ l[second + 2] # ":" THEN ""
      ELSE IF l[second + 1] = "-START" THEN "START"
      ELSE IF l[second + 1] = "-DAG" THEN "DAG"
      ELSE IF l[second + 1] = "-NOT" THEN "Not"
      ELSE ""

\* The text of a line after the colon of its token, without the whitespace
\* around it.
AfterColon(l) ==
  LET colon == Min({i \in 1..Len(l) : l[i] = ":"})
      inked == {i \in (colon + 1)..Len(l) : l[i] \notin Whitespace}
  IN  IF inked = {} THEN <<>> ELSE SubSeq(l, Min(inked), Max(inked))

\* The tokens of the lines read so far; the START lines among them, the check
\* lines of the j-th group, and the check lines read before any START line.
TokensRead == [k \in 1..lineNo |-> Token(Stripped(k))]
StartLines(tok) == {k \in DOMAIN tok : tok[k] = "START"}
CheckLinesOf(tok, starts, j) ==
  {k \in DOMAIN tok :
     /\ tok[k] \in Variants
     /\ k > Nth(starts, j)
     /\ j < Cardinality(starts) => k < Nth(starts, j + 1)}
Orphans(tok, starts) == {k \in DOMAIN tok : tok[k] \in Variants /\ \A n \in starts : n > k}

\* C15: the parsing fails as soon as a check line is read before any START
\* line, and stores no groups; the groups and their lines are made of the
\* START lines and of the check lines alone, so a line with none of the four
\* tokens changes neither the groups nor the lines of a group.
C15_OrphanFatalOthersIgnored ==
  \E tok \in {TokensRead} :
  \E starts \in {StartLines(tok)} :
  \E orphans \in {Orphans(tok, starts)} :
    /\ orphans # {} <=> (pc = "parseFailed" /\ parseError = "TypeError")
    /\ orphans # {} => (orphans = {lineNo} /\ groups = <<>> /\ ~ENABLED NextCheck)
    /\ Len(allGroups) = Cardinality(starts)
    /\ \A j \in 1..Len(allGroups) :
         \E own \in {CheckLinesOf(tok, starts, j)} :
           /\ allGroups[j].name = AfterColon(Stripped(Nth(starts, j)))
           /\ Len(allGroups[j].lines) = Cardinality(own)
           /\ \A i \in 1..Len(allGroups[j].lines) :
                \E k \in {Nth(own, i)} :
                  allGroups[j].lines[i] = <<AfterColon(Stripped(k)), tok[k]>>
    /\ pc = "parsed" =>
         /\ Len(groups) = Len(allGroups)
         /\ \A j \in 1..Len(groups) :
              /\ groups[j].name = allGroups[j].name
              /\ Len(groups[j].lines) = Len(allGroups[j].lines)

\* A check line read after lines of none of the four tokens and before any
\* START line has ended the parsing.
C15_Witness ==
  /\ pc = "parseFailed"
  /\ parseError = "TypeError"
  /\ lineNo >= 2
  /\ Token(Stripped(1)) = ""
  /\ Stripped(1) # <<>>
  /\ Orphans(TokensRead, StartLines(TokensRead)) = {lineNo}

\* C16: every check line of the parsed check file records the number of the
\* line of the file it was written on.
C16_CheckLineRecordsLineNumber ==
  pc = "parsed" =>
    \E tok \in {TokensRead} :
      \A j \in 1..Len(groups) : \A i \in 1..Len(groups[j].lines) :
        groups[j].lines[i].lineNo = Nth(CheckLinesOf(tok, StartLines(tok), j), i)

\* The matched independent spans, in order.
Spans == {k \in 1..Len(hist) : hist[k].independentChecks # <<>>}

\* C17: every position consumed by a span is greater than every position
\* consumed by an earlier span of the run, and after each span the lines left
\* to search are exactly the lines after the highest position it consumed.
C17_SpansAdvance ==
  /\ \A k, n \in Spans :
       k < n => \A p \in Numbers(hist[k].matched) : \A q \in Numbers(hist[n].matched) :
                  p < q
  /\ \A k \in Spans :
       /\ \A p \in Numbers(hist[k].matched) : p > hist[k].lo
       /\ k < Len(hist) => hist[k + 1].lo = Max(Numbers(hist[k].matched))
       /\ (k = Len(hist) /\ pc = "loop") =>
            outputLines = SliceFrom(Body, Max(Numbers(hist[k].matched)))

\* A successful run in which a span of two DAG lines consumed line 2 and then
\* line 1, and the next span consumed line 3.
C17_Witness ==
  /\ pc = "returned"
  /\ Len(hist) >= 2
  /\ hist[1].matched = <<2, 1>>
  /\ hist[2].matched = <<3>>

\* First fit of the check lines i.. of a span on the positions of window that
\* are not taken, from the table: each line takes the lowest position that is
\* not taken and that it matches under the table left by the lines before it.
RECURSIVE FirstFit(_, _, _, _, _, _)
FirstFit(lines, i, window, taken, table, fitted) ==
  IF i > Len(lines) THEN [stuck |-> 0, fitted |-> fitted, table |-> table]
  ELSE LET fits == {p \in window \ taken : LineMatches(lines[i], Body[p], table)}
       IN  IF fits = {} THEN [stuck |-> i, fitted |-> fitted, table |-> table]
           ELSE FirstFit(lines, i + 1, window, taken \cup {Min(fits)},
                         Match(lines[i], Body[Min(fits)], table).vars,
                         Append(fitted, Min(fits)))

\* C18: the lines of a matched span are assigned by first fit in declared
\* order, no output line is consumed by two of them, and the table the span
\* leaves is the one threaded through its lines; a span fails with 'could not
\* match' on the first line that first fit cannot place, whether or not
\* another assignment of the earlier lines would place it.
C18_FirstFitNoBacktracking ==
  /\ \A k \in Spans :
       \E f \in {FirstFit(hist[k].independentChecks, 1, (hist[k].lo + 1)..Len(Body),
                          {}, hist[k].varsIn, <<>>)} :
         /\ f.stuck = 0
         /\ hist[k].matched = f.fitted
         /\ hist[k].varsOut = f.table
         /\ Cardinality(Numbers(hist[k].matched)) = Len(hist[k].independentChecks)
  /\ (pc = "raised" /\ failure.kind = "CouldNotMatch") =>
       \E f \in {FirstFit(independentChecks, 1, (Offset + 1)..Len(Body), {},
                          varState, <<>>)} :
         /\ f.stuck # 0
         /\ failure.line = independentChecks[f.stuck]

\* A span of two DAG lines has failed on its second line although the two
\* lines match two different lines of the window: the only line the second
\* matches was consumed by the first.
C18_Witness ==
  /\ pc = "raised"
  /\ failure.kind = "CouldNotMatch"
  /\ Len(independentChecks) = 2
  /\ failure.line = independentChecks[2]
  /\ \E p, q \in (Offset + 1)..Len(Body) :
       /\ p # q
       /\ LineMatches(independentChecks[1], Body[p], varState)
       /\ LineMatches(independentChecks[2], Body[q], varState)

\* The (notChecks, independentChecks) pairs extracted so far, the pair of a
\* failed independent span included, and the lines they are made of.
Pairs ==
  [k \in 1..Len(hist) |-> <<hist[k].notChecks, hist[k].independentChecks>>] \o
  (IF pc = "raised" /\ failure.in = "matchIndependentChecks"
   THEN <<<<notChecks, independentChecks>>>> ELSE <<>>)
PairLines == Concat([k \in 1..Len(Pairs) |-> Pairs[k][1] \o Pairs[k][2]])

AllOf(lines, variant) == \A i \in 1..Len(lines) : lines[i].variant = variant

\* C19: the pairs extracted so far and the lines left make up the lines of
\* the group in order; the Not lines of a pair are a maximal run of Not lines;
\* its independent lines are one InOrder line or a maximal run of DAG lines;
\* only the last pair of a group may have no independent line.
C19_SpanPartition ==
  pc \in {"loop", "returned", "raised"} =>
    /\ PairLines \o checkLines = checkGroup.lines
    /\ \A k \in 1..Len(Pairs) :
         /\ AllOf(Pairs[k][1], "Not")
         /\ \/ Pairs[k][2] = <<>> /\ Pairs[k][1] # <<>>
            \/ Len(Pairs[k][2]) = 1 /\ Pairs[k][2][1].variant = "InOrder"
            \/ Pairs[k][2] # <<>> /\ AllOf(Pairs[k][2], "DAG")
         /\ Pairs[k][2] = <<>> => (k = Len(Pairs) /\ checkLines = <<>>)
         /\ (k < Len(Pairs) /\ Pairs[k][2][1].variant = "DAG") =>
               (Pairs[k + 1][1] \o Pairs[k + 1][2])[1].variant # "DAG"
         /\ (k = Len(Pairs) /\ Pairs[k][2] # <<>> /\ Pairs[k][2][1].variant = "DAG"
               /\ checkLines # <<>>) =>
               checkLines[1].variant # "DAG"

\* A group of two DAG lines and a Not line was split into a span of the two
\* DAG lines and a trailing Not span.
C19_Witness ==
  /\ pc = "returned"
  /\ Len(hist) = 2
  /\ Len(hist[1].independentChecks) = 2
  /\ hist[1].notChecks = <<>>
  /\ hist[2].independentChecks = <<>>
  /\ Len(hist[2].notChecks) = 1

\* The names the check line defines.
Defined(checkLine) ==
  {checkLine.lineParts[i].name :
     i \in {e \in 1..Len(checkLine.lineParts) : checkLine.lineParts[e].variant = "VarDef"}}

\* The elements of the check line, each of which takes one character, match
\* the characters of the output line that follow position s, one after the
\* other, with the table giving the value of every variable of the line.
FitsAt(checkLine, outputLine, s, table) ==
  /\ s + Len(checkLine.lineParts) <= Len(outputLine)
  /\ \A i \in 1..Len(checkLine.lineParts) :
       LET part == checkLine.lineParts[i]
           ch == outputLine[s + i]
       IN  /\ part.variant = "Text" => ch \in part.pattern[1].cls
           /\ part.variant = "VarDef" => ch \in part.pattern[1].cls
           /\ part.variant # "Text" =>
                (part.name \in DOMAIN table /\ table[part.name] = <<ch>>)

\* C20: the table a check line is matched with is left as it was; the table
\* returned for the output line it consumed is that table and one binding for
\* each name the line defines, all taken from one start position at which the
\* whole line matches, so no binding of an attempt that stopped half-way or
\* of a probe of another output line is in it or in the way of a later attempt.
C20_MatchLeavesTableAlone ==
  /\ \A k \in Spans :
       LET line == hist[k].independentChecks[1]
           out == hist[k].varsOut
       IN  /\ Extends(out, hist[k].varsIn)
           /\ DOMAIN out.map = DOMAIN hist[k].varsIn.map \cup Defined(line)
           /\ \E s \in 0..Len(Body[hist[k].matched[1]]) :
                FitsAt(line, Body[hist[k].matched[1]], s, out.map)
  /\ \A k \in 1..Len(hist) : k < Len(hist) => hist[k + 1].varsIn = hist[k].varsOut
  /\ (pc = "raised" /\ hist # <<>> /\ hist[Len(hist)].notErr = "") =>
        varState = hist[Len(hist)].varsOut
  /\ (pc = "raised" /\ hist = <<>>) => varState = EmptyDict
  /\ (pc = "raised" /\ failure.kind = "Redefinition") =>
        Defined(failure.line) \cap DOMAIN varState.map # {}
  /\ (pc = "raised" /\ failure.kind = "CouldNotMatch") =>
        \A p \in (Offset + 1)..Len(Body) : \A s \in 0..Len(Body[p]) :
          \A x, y \in {<<d>> : d \in Digits} :
            ~FitsAt(failure.line, Body[p], s,
                    [n \in {"X", "Y"} |->
                       IF n \in DOMAIN varState.map THEN varState.map[n]
                       ELSE IF n = "X" THEN x ELSE y])

\* The line  [[X:\d]]2  was matched on  v212  with Y bound: the attempt
\* at the first digit bound X to 2 and stopped, the attempt at the second
\* digit bound X to 1 and matched; before that the line was probed on  v11,
\* where both attempts bound X to 1 and stopped.
C20_Witness ==
  \E k \in Spans :
    /\ k >= 2
    /\ hist[k].independentChecks[1].lineParts =
         <<VarDef("X", OneDigit), ParseText(<<"2">>)>>
    /\ hist[k].matched[1] = hist[k].lo + 2
    /\ Body[hist[k].lo + 1] = <<"v", "1", "1">>
    /\ Body[hist[k].matched[1]] = <<"v", "2", "1", "2">>
    /\ "Y" \in DOMAIN hist[k].varsIn.map
    /\ hist[k].varsOut.map["X"] = <<"1">>

\* C21: CheckLine.match terminates for every check line and every output
\* line, a check line whose first element can match the empty string
\* included: every retry searches from one character after the start of the
\* attempt before it, every attempt starts at a position of the output line,
\* and once no further position is left the call returns None.
C21_RetriesEndWithTheLine ==
  /\ \A i \in 1..Len(attempts) :
       /\ attempts[i] <= Len(callOutput)
       /\ i > 1 => attempts[i] > attempts[i - 1]
  /\ pc = "retry" /\ attempts # <<>> =>
       /\ searchFrom = attempts[Len(attempts)] + 1
       /\ searchFrom <= Len(callOutput) + 1

\* The exceptions that the reading of a line raises.
LineErrors == {"LineOutsideGroup", "PassWithoutMethod", "ExpectedGroupName", "TypeError"}

\* The accepted name lines that are followed by end_cfg with nothing but
\* blank lines between the two: the cfg blocks with no line.
EmptyCfgBlocks(text, names) ==
  {n \in names :
     \E k \in (n + 1)..Len(text) :
       /\ text[k] = <<"end_cfg">>
       /\ \A i \in (n + 1)..(k - 1) : text[i] = <<>>}

\* C22: every group of a parsed output file has a name and at least one line.
\* Once a cfg block with no line between its name line and end_cfg was read,
\* the parsing fails and stores no groups: at the latest when the groups are
\* built at the end of the stream, with the exception of the missing body.
C22_ParsedGroupsNonEmpty ==
  /\ pc = "parsed" =>
       \A j \in 1..Len(outputGroups) :
         outputGroups[j].name # <<>> /\ outputGroups[j].body # <<>>
  /\ \E text \in {LinesRead} :
       (pc # "parseOutput" /\ EmptyCfgBlocks(text, NameLines(text)) # {}) =>
         /\ pc = "parseFailed"
         /\ outputGroups = <<>>
         /\ parseError \notin LineErrors =>
              (parseError = "NoBody" /\ lineNo = Len(stream))

\* Every line of a stream was read with no exception; the stream has a cfg
\* block with lines and, after it, a cfg block with none, and the building of
\* the groups fails on the missing body.
C22_Witness ==
  /\ pc = "parseFailed"
  /\ parseError = "NoBody"
  /\ lineNo = Len(stream)
  /\ Len(allGroups) = 2
  /\ allGroups[1].lines # <<>>
  /\ allGroups[2].lines = <<>>
  /\ EmptyCfgBlocks(LinesRead, NameLines(LinesRead)) # {}

\* C23: the end of the stream is accepted in whatever state the parser is,
\* inside a compilation block or a cfg block that was never closed included:
\* once every line was read with no exception, the file is parsed unless a
\* group has no line, and its groups are the groups read.  The group of a cfg
\* block that the end of the stream cuts short has the lines read so far.
C23_UnclosedBlockAccepted ==
  \E text \in {LinesRead} :
  \E names \in {NameLines(text)} :
    (/\ pc \in {"parsed", "parseFailed"}
     /\ parseError \notin LineErrors
     /\ state \in {"InsideCompilationBlock", "InsideCfgBlock"}) =>
      /\ lineNo = Len(stream)
      /\ pc = "parsed" <=> (\A j \in 1..Len(allGroups) : allGroups[j].lines # <<>>)
      /\ pc = "parsed" =>
           /\ Len(outputGroups) = Cardinality(names)
           /\ \A j \in 1..Len(outputGroups) :
                \E body \in {BodyLines(text, names, j)} :
                  /\ outputGroups[j].name = allGroups[j].name
                  /\ outputGroups[j].body = [i \in 1..Cardinality(body) |->
                                               text[Nth(body, i)]]
                  /\ body # {}
      /\ (state = "InsideCfgBlock" /\ pc = "parseFailed") =>
           (parseError = "NoBody" /\ \E j \in 1..Len(allGroups) : allGroups[j].lines = <<>>)

\* A stream that ends inside a cfg block with no end_cfg is parsed; the last
\* line of the stream is the last line of its last group.
C23_Witness ==
  /\ pc = "parsed"
  /\ state = "InsideCfgBlock"
  /\ \A k \in 1..Len(stream) : Stripped(k) # <<"end_cfg">>
  /\ outputGroups # <<>>
  /\ \E last \in {outputGroups[Len(outputGroups)].body} :
       last[Len(last)] = Stripped(Len(stream))

\* A stream that ends inside a compilation block with no end_compilation is
\* parsed, and has a group read before the block.
C23_WitnessCompilation ==
  /\ pc = "parsed"
  /\ state = "InsideCompilationBlock"
  /\ Stripped(Len(stream)) # <<"end_compilation">>
  /\ outputGroups # <<>>

\* What the Not lines from line i on give when every one of them is probed,
\* in order, on the lines of a window under one and the same variable table:
\* the exception of the first probe that raises, "NotLineMatches" for the
\* first line that matches, "" if no line matches.
RECURSIVE NotLinesUnder(_, _, _, _)
NotLinesUnder(notLines, i, window, table) ==
  IF i > Len(notLines) THEN ""
  ELSE LET r == FindFirstMatch(notLines[i], window, <<>>, table)
       IN  IF r.err # "" THEN r.err
           ELSE IF r.vars.kind # "None" THEN "NotLineMatches"
           ELSE NotLinesUnder(notLines, i + 1, window, table)

\* The lines of the window of span k, in order.
WindowLines(k) ==
  [i \in 1..Cardinality(hist[k].window) |-> Body[hist[k].lo + i]]

\* C24: every Not line of a span is evaluated under the variable table as it
\* was before the independent span after it was matched, so that it sees the
\* variables bound by the earlier spans and none of those that only the
\* independent span after it defines; and the table handed to the next span is
\* the one the independent span has built, with no binding added or changed
\* by the Not lines.
C24_NotLinesUnderTableBeforeSpan ==
  \A k \in 1..Len(hist) :
    /\ hist[k].notErr = NotLinesUnder(hist[k].notChecks, 1, WindowLines(k),
                                      hist[k].varsIn)
    /\ k < Len(hist) => hist[k + 1].varsIn = hist[k].varsOut
    /\ hist[k].independentChecks # <<>> =>
         hist[k].varsOut =
           MatchChecksFrom(hist[k].independentChecks, 1,
                           SliceFrom(Body, hist[k].lo), <<>>, hist[k].varsIn).vars

\* C24, for the first Not line of a span and for the table handed on: the
\* first Not line is evaluated under the table as it was before the
\* independent span after it was matched, and the table handed to the next
\* span is the one the independent span has built.
C24_FirstNotLineUnderTableBeforeSpan ==
  \A k \in 1..Len(hist) :
    /\ hist[k].notChecks # <<>> =>
         \E first \in {NotLinesUnder(<<hist[k].notChecks[1]>>, 1, WindowLines(k),
                                     hist[k].varsIn)} :
           /\ first # "" => hist[k].notErr = first
           /\ (first = "" /\ Len(hist[k].notChecks) = 1) => hist[k].notErr = ""
    /\ k < Len(hist) => hist[k + 1].varsIn = hist[k].varsOut
    /\ hist[k].independentChecks # <<>> =>
         hist[k].varsOut =
           MatchChecksFrom(hist[k].independentChecks, 1,
                           SliceFrom(Body, hist[k].lo), <<>>, hist[k].varsIn).vars

\* The first Not line of a span refers to X, which the independent span after
\* it defines and no span before it: the line is probed on a line of the window
\* and the reference is undefined.
C24_WitnessUnbound ==
  /\ pc = "raised"
  /\ failure.kind = "UndefinedVariable"
  /\ hist # <<>>
  /\ \E k \in {Len(hist)} :
       /\ hist[k].notChecks # <<>>
       /\ hist[k].notChecks[1].lineParts[1].variant = "VarRef"
       /\ hist[k].window # {}
       /\ hist[k].varsIn = EmptyDict
       /\ "X" \in DOMAIN hist[k].varsOut.map

====
